---------------------------- MODULE Spec2Model ----------------------------
(***************************************************************************)
(* A model of the authoritative game server of Defense-Zone-Driver:        *)
(* the GameRoom class (server/src/GameRoom.ts) and the socket handlers     *)
(* and game loop that drive it (server/src/index.ts).                      *)
(*                                                                         *)
(* Positions are whole pixels (the code computes with doubles; a move is   *)
(* rounded to the nearest pixel here).  Distances are compared through     *)
(* their squares, which is exact for whole-pixel positions.  Wall-clock    *)
(* time is in milliseconds, as Date.now() gives it.                        *)
(***************************************************************************)
EXTENDS Integers, Sequences, FiniteSets, TLC

(***************************************************************************)
(* GAME_CONFIG (shared/src/types.ts)                                       *)
(***************************************************************************)
WORLD_WIDTH == 800
WORLD_HEIGHT == 600
PLAYER_SIZE == 16
PLAYER_SPEED == 200
COLORS_LENGTH == 8
ENEMY_SPEED == 50
ENEMY_HP == 200
ENEMY_SIZE == 12
ENEMY_SPAWN_INTERVAL == 2000
ENEMY_DAMAGE == 20
ENEMY_ATTACK_RANGE == 20
ENEMY_ATTACK_COOLDOWN == 1000
CENTRAL_BUILDING_SIZE == 64
CENTRAL_BUILDING_HP == 1000
BUILDING_SIZE == 32
BUILDING_HP == 200
BUILDING_DAMAGE == 15
BUILDING_ATTACK_RANGE == 150
BUILDING_ATTACK_COOLDOWN == 500
PROJECTILE_SPEED == 300
SPAWN_POSITIONS ==
  <<[x |-> 50, y |-> 50], [x |-> 750, y |-> 50],
    [x |-> 50, y |-> 550], [x |-> 750, y |-> 550]>>

\* addPlayer's edge margin
margin == 80
\* updateProjectiles' proximity threshold
PROXIMITY == 5

RUNNING == "running"
WAITING == "waiting"

(***************************************************************************)
(* Bounds of the model                                                     *)
(***************************************************************************)
\* Date.now() when the server starts, in seconds (any value far above the
\* cooldowns, so that "cooldowns.get(id) || 0" is always long ago)
EpochSeconds == 100
Epoch == EpochSeconds * 1000

(***************************************************************************)
(* Arithmetic helpers                                                      *)
(***************************************************************************)
Max(a, b) == IF a >= b THEN a ELSE b
Min(a, b) == IF a <= b THEN a ELSE b
Abs(a) == IF a >= 0 THEN a ELSE -a
MinOf(S) == CHOOSE m \in S : \A n \in S : m <= n

\* n / d rounded to the nearest integer (d > 0), symmetric around 0
Round(n, d) == IF n >= 0 THEN (2 * n + d) \div (2 * d)
               ELSE -((2 * (-n) + d) \div (2 * d))

RECURSIVE ISqrtIn(_, _, _)
ISqrtIn(n, lo, hi) ==
  IF lo >= hi THEN lo
  ELSE LET mid == (lo + hi + 1) \div 2
       IN IF mid * mid <= n THEN ISqrtIn(n, mid, hi) ELSE ISqrtIn(n, lo, mid - 1)

\* floor of the square root of n, for 0 <= n < 2^30
ISqrt(n) == ISqrtIn(n, 0, 32767)

\* squared Euclidean length of (dx, dy)
Dist2(dx, dy) == dx * dx + dy * dy

\* Math.sqrt(dx*dx + dy*dy) in tenths of a pixel
Dist10(dx, dy) == ISqrt(Dist2(dx, dy) * 100)

\* speed * deltaTime in tenths of a pixel, deltaTime = ms / 1000
Step10(speed, ms) == (speed * ms) \div 100

\* (d / distance) * speed * deltaTime for a direction component d, in pixels
Toward(d, dist10, speed, ms) == Round(d * Step10(speed, ms), dist10)


(***************************************************************************)
(* Maps (JavaScript Map / Set): functions with a finite domain.  The       *)
(* entity maps are keyed by the number n of "enemy_n", "building_n",       *)
(* "projectile_n"; a Map iterates in insertion order, which for these      *)
(* keys is increasing n.                                                   *)
(***************************************************************************)
EmptyMap == [k \in {} |-> 0]
Put(m, k, v) == [i \in (DOMAIN m) \cup {k} |-> IF i = k THEN v ELSE m[i]]
Del(m, k) == [i \in (DOMAIN m) \ {k} |-> m[i]]
DelAll(m, ks) == [i \in (DOMAIN m) \ ks |-> m[i]]
\* cooldowns.get(id) || 0
GetOr0(m, k) == IF k \in DOMAIN m THEN m[k] ELSE 0

(***************************************************************************)
(* The state                                                               *)
(***************************************************************************)
VARIABLES
  conn,                    \* each socket id: "new", "open" or "closed"
  players,                 \* GameRoom.players
  playerInputs,            \* GameRoom.playerInputs
  enemies,                 \* GameRoom.enemies
  buildings,               \* GameRoom.buildings
  projectiles,             \* GameRoom.projectiles
  centralBuilding,         \* GameRoom.centralBuilding
  matchPhase,              \* GameRoom.matchPhase
  readyPlayers,            \* GameRoom.readyPlayers
  lastEnemySpawn,          \* GameRoom.lastEnemySpawn
  enemyIdCounter,          \* GameRoom.enemyIdCounter
  buildingIdCounter,       \* GameRoom.buildingIdCounter
  projectileIdCounter,     \* GameRoom.projectileIdCounter
  enemyAttackCooldowns,    \* GameRoom.enemyAttackCooldowns
  buildingAttackCooldowns, \* GameRoom.buildingAttackCooldowns
  now,                     \* Date.now()
  lastTickTime,            \* index.ts lastTickTime
  lastCall                 \* the last handler that ran, its arguments and result

roomVars == <<players, playerInputs, enemies, buildings, projectiles,
              centralBuilding, matchPhase, readyPlayers, lastEnemySpawn,
              enemyIdCounter, buildingIdCounter, projectileIdCounter,
              enemyAttackCooldowns, buildingAttackCooldowns>>

vars == <<conn, roomVars, now, lastTickTime, lastCall>>

\* the GameRoom object as one record
Room ==
  [players |-> players, playerInputs |-> playerInputs, enemies |-> enemies,
   buildings |-> buildings, projectiles |-> projectiles,
   centralBuilding |-> centralBuilding, matchPhase |-> matchPhase,
   readyPlayers |-> readyPlayers, lastEnemySpawn |-> lastEnemySpawn,
   enemyIdCounter |-> enemyIdCounter, buildingIdCounter |-> buildingIdCounter,
   projectileIdCounter |-> projectileIdCounter,
   enemyAttackCooldowns |-> enemyAttackCooldowns,
   buildingAttackCooldowns |-> buildingAttackCooldowns]

\* the GameRoom object becomes r
SetRoom(r) ==
  /\ players' = r.players
  /\ playerInputs' = r.playerInputs
  /\ enemies' = r.enemies
  /\ buildings' = r.buildings
  /\ projectiles' = r.projectiles
  /\ centralBuilding' = r.centralBuilding
  /\ matchPhase' = r.matchPhase
  /\ readyPlayers' = r.readyPlayers
  /\ lastEnemySpawn' = r.lastEnemySpawn
  /\ enemyIdCounter' = r.enemyIdCounter
  /\ buildingIdCounter' = r.buildingIdCounter
  /\ projectileIdCounter' = r.projectileIdCounter
  /\ enemyAttackCooldowns' = r.enemyAttackCooldowns
  /\ buildingAttackCooldowns' = r.buildingAttackCooldowns

Call(op, id, x, y, ret) == [op |-> op, id |-> id, x |-> x, y |-> y, ret |-> ret]

(***************************************************************************)
(* GameRoom: construction and the command handlers                         *)
(***************************************************************************)
createCentralBuilding ==
  [x |-> WORLD_WIDTH \div 2, y |-> WORLD_HEIGHT \div 2,
   hp |-> CENTRAL_BUILDING_HP, maxHp |-> CENTRAL_BUILDING_HP,
   size |-> CENTRAL_BUILDING_SIZE]

\* the neutral input addPlayer stores
NoKeys == [left |-> FALSE, right |-> FALSE, up |-> FALSE, down |-> FALSE]
\* a PLAYER_INPUT payload that is undefined or null
NoInput == [left |-> FALSE, right |-> FALSE, up |-> FALSE, down |-> FALSE,
            missing |-> TRUE]

\* addPlayer(id, username), Math.random() having given the position (x, y)
addPlayer(r, id, x, y) ==
  LET colorIndex == Cardinality(DOMAIN r.players) % COLORS_LENGTH
      player == [x |-> x, y |-> y, color |-> colorIndex, speed |-> PLAYER_SPEED]
  IN [r EXCEPT !.players = Put(@, id, player),
               !.playerInputs = Put(@, id, NoKeys)]

\* a faulty removePlayer: the player stays in the players map
removePlayer_KeepsPlayer(r, id) ==
  [r EXCEPT !.playerInputs = Del(@, id),
            !.readyPlayers = @ \ {id}]

removePlayer(r, id) ==
  [r EXCEPT !.players = Del(@, id),
            !.playerInputs = Del(@, id),
            !.readyPlayers = @ \ {id}]

updatePlayerInput(r, id, input) ==
  [r EXCEPT !.playerInputs = Put(@, id, input)]

\* a faulty phase guard: placement is allowed in every phase
PlacementPhase_Any(r) == TRUE

\* placeBuilding's phase guard: placement is allowed
PlacementPhase(r) == r.matchPhase = RUNNING

\* a faulty centre check: the building's own half size is forgotten
TooCloseToCenter_CentralOnly(r, x, y) ==
  4 * Dist2(x - r.centralBuilding.x, y - r.centralBuilding.y)
    < r.centralBuilding.size * r.centralBuilding.size

\* distanceFromCenter < minDistanceFromCenter (both sides doubled and squared)
TooCloseToCenter(r, x, y) ==
  LET dxFromCenter == x - r.centralBuilding.x
      dyFromCenter == y - r.centralBuilding.y
  IN 4 * Dist2(dxFromCenter, dyFromCenter)
       < (r.centralBuilding.size + BUILDING_SIZE) * (r.centralBuilding.size + BUILDING_SIZE)

\* the buildings placeBuilding counts as adjacent to (x, y)
Adjacent(r, x, y) ==
  LET gridSize == BUILDING_SIZE
  IN {b \in DOMAIN r.buildings :
        LET dx == Abs(r.buildings[b].x - x)
            dy == Abs(r.buildings[b].y - y)
        IN dx <= gridSize /\ dy <= gridSize /\ ~(dx = 0 /\ dy = 0)}

\* a faulty adjacency limit: two adjacent buildings are already too many
TooManyAdjacent_TwoOrMore(r, x, y) == Cardinality(Adjacent(r, x, y)) >= 2

TooManyAdjacent(r, x, y) == Cardinality(Adjacent(r, x, y)) > 2

\* placeBuilding(x, y, type, ownerId): the room afterwards and the result
placeBuilding(r, x, y, type, ownerId) ==
  IF ~PlacementPhase(r) THEN [room |-> r, ret |-> "null"]
  ELSE IF TooCloseToCenter(r, x, y) THEN [room |-> r, ret |-> "null"]
  ELSE IF TooManyAdjacent(r, x, y) THEN [room |-> r, ret |-> "null"]
  ELSE LET building == [x |-> x, y |-> y, type |-> type, hp |-> BUILDING_HP,
                        maxHp |-> BUILDING_HP, ownerId |-> ownerId]
       IN [room |-> [r EXCEPT !.buildings = Put(@, r.buildingIdCounter, building),
                              !.buildingIdCounter = @ + 1],
           ret |-> "building"]

\* a faulty reset: the projectiles in flight are kept
resetMatch_KeepsProjectiles(r, t) ==
  [r EXCEPT !.enemies = EmptyMap,
            !.buildings = EmptyMap,
            !.enemyAttackCooldowns = EmptyMap,
            !.buildingAttackCooldowns = EmptyMap,
            !.centralBuilding = createCentralBuilding,
            !.readyPlayers = {},
            !.matchPhase = RUNNING,
            !.lastEnemySpawn = t]

\* a faulty reset: the id counters start again from 0
resetMatch_ResetsCounters(r, t) ==
  [r EXCEPT !.enemies = EmptyMap,
            !.buildings = EmptyMap,
            !.projectiles = EmptyMap,
            !.enemyAttackCooldowns = EmptyMap,
            !.buildingAttackCooldowns = EmptyMap,
            !.centralBuilding = createCentralBuilding,
            !.readyPlayers = {},
            !.matchPhase = RUNNING,
            !.lastEnemySpawn = t,
            !.enemyIdCounter = 0,
            !.buildingIdCounter = 0,
            !.projectileIdCounter = 0]

\* resetMatch(), Date.now() being t
resetMatch(r, t) ==
  [r EXCEPT !.enemies = EmptyMap,
            !.buildings = EmptyMap,
            !.projectiles = EmptyMap,
            !.enemyAttackCooldowns = EmptyMap,
            !.buildingAttackCooldowns = EmptyMap,
            !.centralBuilding = createCentralBuilding,
            !.readyPlayers = {},
            !.matchPhase = RUNNING,
            !.lastEnemySpawn = t]

\* playerReady's test after adding the player to the ready set
AllReady(r) ==
  /\ Cardinality(r.readyPlayers) = Cardinality(DOMAIN r.players)
  /\ Cardinality(DOMAIN r.players) > 0

\* a faulty playerReady: the phase is not looked at
playerReady_AnyPhase(r, playerId, t) ==
  LET r1 == [r EXCEPT !.readyPlayers = @ \cup {playerId}]
  IN IF AllReady(r1) THEN [room |-> resetMatch(r1, t), ret |-> "true"]
     ELSE [room |-> r1, ret |-> "false"]

\* playerReady(playerId), Date.now() being t: the room afterwards and the result
playerReady(r, playerId, t) ==
  IF r.matchPhase # WAITING THEN [room |-> r, ret |-> "false"]
  ELSE LET r1 == [r EXCEPT !.readyPlayers = @ \cup {playerId}]
       IN IF AllReady(r1) THEN [room |-> resetMatch(r1, t), ret |-> "true"]
          ELSE [room |-> r1, ret |-> "false"]

(***************************************************************************)
(* GameRoom.update and its passes.  ms is deltaTime in milliseconds, t is  *)
(* Date.now() during the tick.                                             *)
(***************************************************************************)
\* the scale in which a unit velocity component is written
VelocityScale == 100 * 100

\* a faulty velocity: a diagonal is not normalised
Velocity_Unnormalised(a, b) == a * VelocityScale

\* updatePlayers' velocity (x or y component), scaled by VelocityScale:
\* a is this axis' raw velocity, b the other axis'
Velocity(a, b) ==
  IF a # 0 /\ b # 0
  THEN Round(a * VelocityScale * VelocityScale,
             ISqrt((a * a + b * b) * VelocityScale * VelocityScale))
  ELSE a * VelocityScale

\* a faulty clamp: the upper bound is forgotten
Clamp_NoUpper(lo, hi, v) == Max(lo, v)

\* Math.max(lo, Math.min(hi, v))
Clamp(lo, hi, v) == Max(lo, Min(hi, v))

\* one player's step in updatePlayers
movePlayer(player, input, ms) ==
  LET velocityX == (IF input.right THEN 1 ELSE 0) - (IF input.left THEN 1 ELSE 0)
      velocityY == (IF input.down THEN 1 ELSE 0) - (IF input.up THEN 1 ELSE 0)
      x1 == player.x + Round(Velocity(velocityX, velocityY) * Step10(player.speed, ms),
                             10 * VelocityScale)
      y1 == player.y + Round(Velocity(velocityY, velocityX) * Step10(player.speed, ms),
                             10 * VelocityScale)
      halfSize == PLAYER_SIZE \div 2
  IN [player EXCEPT !.x = Clamp(halfSize, WORLD_WIDTH - halfSize, x1),
                    !.y = Clamp(halfSize, WORLD_HEIGHT - halfSize, y1)]

updatePlayers(r, ms) ==
  [r EXCEPT !.players =
     [id \in DOMAIN r.players |->
        IF id \notin DOMAIN r.playerInputs \/ "missing" \in DOMAIN r.playerInputs[id]
        THEN r.players[id]
        ELSE movePlayer(r.players[id], r.playerInputs[id], ms)]]

\* a faulty spawn pass: the spawn timer is not stamped
spawnEnemies_KeepsTimer(r, t, rnd) ==
  IF t - r.lastEnemySpawn >= ENEMY_SPAWN_INTERVAL
  THEN LET spawnPos == SPAWN_POSITIONS[rnd]
           enemy == [x |-> spawnPos.x, y |-> spawnPos.y, hp |-> ENEMY_HP,
                     maxHp |-> ENEMY_HP, speed |-> ENEMY_SPEED]
       IN [r EXCEPT !.enemies = Put(@, r.enemyIdCounter, enemy),
                    !.enemyIdCounter = @ + 1]
  ELSE r

\* spawnEnemies(), Math.random() having chosen SPAWN_POSITIONS[rnd]
spawnEnemies(r, t, rnd) ==
  IF t - r.lastEnemySpawn >= ENEMY_SPAWN_INTERVAL
  THEN LET spawnPos == SPAWN_POSITIONS[rnd]
           enemy == [x |-> spawnPos.x, y |-> spawnPos.y, hp |-> ENEMY_HP,
                     maxHp |-> ENEMY_HP, speed |-> ENEMY_SPEED]
       IN [r EXCEPT !.enemies = Put(@, r.enemyIdCounter, enemy),
                    !.enemyIdCounter = @ + 1,
                    !.lastEnemySpawn = t]
  ELSE r

\* no target: closestTarget = null, closestDistance = Infinity
NoTarget == [found |-> FALSE, isCentral |-> FALSE, id |-> -1, x |-> 0, y |-> 0,
             size |-> 0, d2 |-> 0]

\* a faulty scan: a building as close as the closest target so far replaces it
RECURSIVE closestBuilding_LaterWinsTies(_, _, _, _)
closestBuilding_LaterWinsTies(r, ids, enemy, closest) ==
  IF ids = {} THEN closest
  ELSE LET buildingId == MinOf(ids)
           building == r.buildings[buildingId]
           d2 == Dist2(building.x - enemy.x, building.y - enemy.y)
           next == IF ~closest.found \/ d2 <= closest.d2
                   THEN [found |-> TRUE, isCentral |-> FALSE, id |-> buildingId,
                         x |-> building.x, y |-> building.y,
                         size |-> BUILDING_SIZE, d2 |-> d2]
                   ELSE closest
       IN closestBuilding_LaterWinsTies(r, ids \ {buildingId}, enemy, next)

\* updateEnemies' scan of the player buildings in ids, in Map order, from the
\* closest target so far
RECURSIVE closestBuilding(_, _, _, _)
closestBuilding(r, ids, enemy, closest) ==
  IF ids = {} THEN closest
  ELSE LET buildingId == MinOf(ids)
           building == r.buildings[buildingId]
           d2 == Dist2(building.x - enemy.x, building.y - enemy.y)
           next == IF ~closest.found \/ d2 < closest.d2
                   THEN [found |-> TRUE, isCentral |-> FALSE, id |-> buildingId,
                         x |-> building.x, y |-> building.y,
                         size |-> BUILDING_SIZE, d2 |-> d2]
                   ELSE closest
       IN closestBuilding(r, ids \ {buildingId}, enemy, next)

\* the closest target of an enemy: the central building first (if it stands),
\* then the buildings
closestTarget(r, enemy) ==
  LET central == r.centralBuilding
      first == IF central.hp > 0
               THEN [found |-> TRUE, isCentral |-> TRUE, id |-> -1,
                     x |-> central.x, y |-> central.y, size |-> central.size,
                     d2 |-> Dist2(central.x - enemy.x, central.y - enemy.y)]
               ELSE NoTarget
  IN closestBuilding(r, DOMAIN r.buildings, enemy, first)

\* distance <= ENEMY_ATTACK_RANGE + size / 2 (both sides doubled and squared)
InAttackRange(target) ==
  4 * target.d2 <= (2 * ENEMY_ATTACK_RANGE + target.size) * (2 * ENEMY_ATTACK_RANGE + target.size)

\* a faulty attack: the target loses twice ENEMY_DAMAGE
enemyAttack_HitsTwice(acc, id, target, t) ==
  LET r == acc.room
      hit == IF target.isCentral
             THEN [acc EXCEPT !.room.centralBuilding.hp =
                                 IF @ - 2 * ENEMY_DAMAGE < 0 THEN 0 ELSE @ - 2 * ENEMY_DAMAGE]
             ELSE IF target.id \in DOMAIN r.buildings
             THEN [acc EXCEPT !.room.buildings[target.id].hp = @ - 2 * ENEMY_DAMAGE,
                              !.buildingsToRemove =
                                 IF r.buildings[target.id].hp - 2 * ENEMY_DAMAGE <= 0
                                 THEN @ \cup {target.id} ELSE @]
             ELSE acc
  IN [hit EXCEPT !.room.enemyAttackCooldowns = Put(@, id, t)]

\* the attack of enemy id on its target, its cooldown having elapsed;
\* acc.room is the room, acc.buildingsToRemove the buildings to delete
enemyAttack(acc, id, target, t) ==
  LET r == acc.room
      hit == IF target.isCentral
             THEN [acc EXCEPT !.room.centralBuilding.hp =
                                 IF @ - ENEMY_DAMAGE < 0 THEN 0 ELSE @ - ENEMY_DAMAGE]
             ELSE IF target.id \in DOMAIN r.buildings
             THEN [acc EXCEPT !.room.buildings[target.id].hp = @ - ENEMY_DAMAGE,
                              !.buildingsToRemove =
                                 IF r.buildings[target.id].hp - ENEMY_DAMAGE <= 0
                                 THEN @ \cup {target.id} ELSE @]
             ELSE acc
  IN [hit EXCEPT !.room.enemyAttackCooldowns = Put(@, id, t)]

\* a faulty loop body: the enemy attacks whether its cooldown has elapsed or not
enemyStep_NoCooldown(acc, id, t, ms) ==
  LET r == acc.room
      enemy == r.enemies[id]
      target == closestTarget(r, enemy)
      acted ==
        IF ~target.found THEN acc
        ELSE IF InAttackRange(target)
        THEN enemyAttack(acc, id, target, t)
        ELSE LET dx == target.x - enemy.x
                 dy == target.y - enemy.y
                 distance == Dist10(dx, dy)
             IN [acc EXCEPT !.room.enemies[id].x = @ + Toward(dx, distance, enemy.speed, ms),
                            !.room.enemies[id].y = @ + Toward(dy, distance, enemy.speed, ms)]
  IN IF enemy.hp <= 0
     THEN [acted EXCEPT !.enemiesToRemove = @ \cup {id}]
     ELSE acted

\* the body of updateEnemies' loop for enemy id
enemyStep(acc, id, t, ms) ==
  LET r == acc.room
      enemy == r.enemies[id]
      target == closestTarget(r, enemy)
      acted ==
        IF ~target.found THEN acc
        ELSE IF InAttackRange(target)
        THEN IF t - GetOr0(r.enemyAttackCooldowns, id) >= ENEMY_ATTACK_COOLDOWN
             THEN enemyAttack(acc, id, target, t)
             ELSE acc
        ELSE LET dx == target.x - enemy.x
                 dy == target.y - enemy.y
                 distance == Dist10(dx, dy)
             IN [acc EXCEPT !.room.enemies[id].x = @ + Toward(dx, distance, enemy.speed, ms),
                            !.room.enemies[id].y = @ + Toward(dy, distance, enemy.speed, ms)]
  IN IF enemy.hp <= 0
     THEN [acted EXCEPT !.enemiesToRemove = @ \cup {id}]
     ELSE acted

RECURSIVE enemyLoop(_, _, _, _)
enemyLoop(acc, ids, t, ms) ==
  IF ids = {} THEN acc
  ELSE LET id == MinOf(ids)
       IN enemyLoop(enemyStep(acc, id, t, ms), ids \ {id}, t, ms)

\* a faulty clean-up: the destroyed buildings are left in the map
updateEnemies_KeepsDestroyed(r, t, ms) ==
  LET acc == enemyLoop([room |-> r, buildingsToRemove |-> {}, enemiesToRemove |-> {}],
                       DOMAIN r.enemies, t, ms)
  IN [acc.room EXCEPT
        !.enemies = DelAll(@, acc.enemiesToRemove),
        !.enemyAttackCooldowns = DelAll(@, acc.enemiesToRemove)]

updateEnemies(r, t, ms) ==
  LET acc == enemyLoop([room |-> r, buildingsToRemove |-> {}, enemiesToRemove |-> {}],
                       DOMAIN r.enemies, t, ms)
  IN [acc.room EXCEPT
        !.buildings = DelAll(@, acc.buildingsToRemove),
        !.enemies = DelAll(@, acc.enemiesToRemove),
        !.enemyAttackCooldowns = DelAll(@, acc.enemiesToRemove)]

\* a faulty scan: the attack range is one pixel too long
RECURSIVE closestEnemy_Range151(_, _, _, _)
closestEnemy_Range151(r, ids, building, closest) ==
  IF ids = {} THEN closest
  ELSE LET id == MinOf(ids)
           enemy == r.enemies[id]
           d2 == Dist2(enemy.x - building.x, enemy.y - building.y)
           next == IF d2 <= (BUILDING_ATTACK_RANGE + 1) * (BUILDING_ATTACK_RANGE + 1)
                      /\ (~closest.found \/ d2 < closest.d2)
                   THEN [found |-> TRUE, isCentral |-> FALSE, id |-> id,
                         x |-> enemy.x, y |-> enemy.y, size |-> 0, d2 |-> d2]
                   ELSE closest
       IN closestEnemy_Range151(r, ids \ {id}, building, next)

\* updateBuildingAttacks' scan of the enemies in ids, in Map order
RECURSIVE closestEnemy(_, _, _, _)
closestEnemy(r, ids, building, closest) ==
  IF ids = {} THEN closest
  ELSE LET id == MinOf(ids)
           enemy == r.enemies[id]
           d2 == Dist2(enemy.x - building.x, enemy.y - building.y)
           next == IF d2 <= BUILDING_ATTACK_RANGE * BUILDING_ATTACK_RANGE
                      /\ (~closest.found \/ d2 < closest.d2)
                   THEN [found |-> TRUE, isCentral |-> FALSE, id |-> id,
                         x |-> enemy.x, y |-> enemy.y, size |-> 0, d2 |-> d2]
                   ELSE closest
       IN closestEnemy(r, ids \ {id}, building, next)

\* a faulty loop body: the building fires whether its cooldown has elapsed or not
buildingStep_NoCooldown(r, buildingId, t) ==
  LET building == r.buildings[buildingId]
      target == closestEnemy(r, DOMAIN r.enemies, building, NoTarget)
  IN IF target.found
     THEN LET projectile == [x |-> building.x, y |-> building.y,
                             targetX |-> target.x, targetY |-> target.y,
                             speed |-> PROJECTILE_SPEED, sourceId |-> buildingId]
          IN [r EXCEPT !.projectiles = Put(@, r.projectileIdCounter, projectile),
                       !.projectileIdCounter = @ + 1,
                       !.buildingAttackCooldowns = Put(@, buildingId, t)]
     ELSE r

\* the body of updateBuildingAttacks' loop for building buildingId
buildingStep(r, buildingId, t) ==
  LET building == r.buildings[buildingId]
      target == closestEnemy(r, DOMAIN r.enemies, building, NoTarget)
  IN IF target.found
        /\ t - GetOr0(r.buildingAttackCooldowns, buildingId) >= BUILDING_ATTACK_COOLDOWN
     THEN LET projectile == [x |-> building.x, y |-> building.y,
                             targetX |-> target.x, targetY |-> target.y,
                             speed |-> PROJECTILE_SPEED, sourceId |-> buildingId]
          IN [r EXCEPT !.projectiles = Put(@, r.projectileIdCounter, projectile),
                       !.projectileIdCounter = @ + 1,
                       !.buildingAttackCooldowns = Put(@, buildingId, t)]
     ELSE r

RECURSIVE buildingLoop(_, _, _)
buildingLoop(r, ids, t) ==
  IF ids = {} THEN r
  ELSE LET id == MinOf(ids)
       IN buildingLoop(buildingStep(r, id, t), ids \ {id}, t)

updateBuildingAttacks(r, t) == buildingLoop(r, DOMAIN r.buildings, t)

\* updateProjectiles' test: the projectile has reached its target point
Arrived(projectile) ==
  Dist2(projectile.targetX - projectile.x, projectile.targetY - projectile.y)
    < PROXIMITY * PROXIMITY

\* a faulty impact: a projectile that has arrived hits every enemy, wherever
\* it stands
Hits_AnyEnemy(projectile, enemy) == TRUE

\* updateProjectiles' test: a projectile at its target point hits the enemy
Hits(projectile, enemy) ==
  Dist2(enemy.x - projectile.x, enemy.y - projectile.y) < ENEMY_SIZE * ENEMY_SIZE

\* a faulty move: the target point is moved back to where the projectile was
moveProjectile_MovesTarget(projectile, ms) ==
  LET dx == projectile.targetX - projectile.x
      dy == projectile.targetY - projectile.y
      distance == Dist10(dx, dy)
  IN [projectile EXCEPT !.x = @ + Toward(dx, distance, projectile.speed, ms),
                        !.y = @ + Toward(dy, distance, projectile.speed, ms),
                        !.targetX = projectile.x,
                        !.targetY = projectile.y]

\* the else branch of updateProjectiles' loop: the projectile moves
moveProjectile(projectile, ms) ==
  LET dx == projectile.targetX - projectile.x
      dy == projectile.targetY - projectile.y
      distance == Dist10(dx, dy)
  IN [projectile EXCEPT !.x = @ + Toward(dx, distance, projectile.speed, ms),
                        !.y = @ + Toward(dy, distance, projectile.speed, ms)]

\* updateProjectiles(deltaTime).  The iterations of its loop do not depend on
\* one another (no enemy moves, each projectile changes only itself, and the
\* damage adds up), so the loop is written as one step: every projectile that
\* has arrived takes BUILDING_DAMAGE from each enemy it hits and is removed,
\* every other projectile moves.
updateProjectiles(r, ms) ==
  LET arrived == {q \in DOMAIN r.projectiles : Arrived(r.projectiles[q])}
      hits(e) == Cardinality({q \in arrived : Hits(r.projectiles[q], r.enemies[e])})
  IN [r EXCEPT
        !.enemies = [e \in DOMAIN r.enemies |->
                       [r.enemies[e] EXCEPT !.hp = @ - BUILDING_DAMAGE * hits(e)]],
        !.projectiles = [q \in (DOMAIN r.projectiles) \ arrived |->
                           moveProjectile(r.projectiles[q], ms)]]

\* a faulty phase check: the match ends one attack early
checkCentralBuildingDestroyed_Early(r) ==
  IF r.centralBuilding.hp <= ENEMY_DAMAGE
  THEN [r EXCEPT !.matchPhase = WAITING, !.readyPlayers = {}]
  ELSE r

\* a faulty phase check: the end of the match clears the world
checkCentralBuildingDestroyed_Clears(r) ==
  IF r.centralBuilding.hp <= 0
  THEN [r EXCEPT !.matchPhase = WAITING, !.readyPlayers = {},
                 !.enemies = EmptyMap, !.buildings = EmptyMap,
                 !.projectiles = EmptyMap, !.enemyAttackCooldowns = EmptyMap,
                 !.buildingAttackCooldowns = EmptyMap]
  ELSE r

\* a faulty phase check: a central building at exactly 0 HP still stands
checkCentralBuildingDestroyed_BelowZero(r) ==
  IF r.centralBuilding.hp < 0
  THEN [r EXCEPT !.matchPhase = WAITING, !.readyPlayers = {}]
  ELSE r

checkCentralBuildingDestroyed(r) ==
  IF r.centralBuilding.hp <= 0
  THEN [r EXCEPT !.matchPhase = WAITING, !.readyPlayers = {}]
  ELSE r

\* a faulty phase test: the game logic runs in every phase
GameLogicRuns_Always(r) == TRUE

\* update's test: the game logic runs in this tick
GameLogicRuns(r) == r.matchPhase = RUNNING

\* a faulty update: the projectiles fly on while the phase is WAITING
update_ProjectilesFlyWhileWaiting(r, ms, t, rnd) ==
  LET r1 == updatePlayers(r, ms)
  IN IF GameLogicRuns(r1)
     THEN checkCentralBuildingDestroyed(
            updateProjectiles(
              updateBuildingAttacks(
                updateEnemies(spawnEnemies(r1, t, rnd), t, ms), t), ms))
     ELSE updateProjectiles(r1, ms)

\* a faulty update: enemies are spawned while the phase is WAITING
update_SpawnsWhileWaiting(r, ms, t, rnd) ==
  LET r1 == updatePlayers(r, ms)
  IN IF GameLogicRuns(r1)
     THEN checkCentralBuildingDestroyed(
            updateProjectiles(
              updateBuildingAttacks(
                updateEnemies(spawnEnemies(r1, t, rnd), t, ms), t), ms))
     ELSE spawnEnemies(r1, t, rnd)

\* update(deltaTime)
update(r, ms, t, rnd) ==
  LET r1 == updatePlayers(r, ms)
  IN IF GameLogicRuns(r1)
     THEN checkCentralBuildingDestroyed(
            updateProjectiles(
              updateBuildingAttacks(
                updateEnemies(spawnEnemies(r1, t, rnd), t, ms), t), ms))
     ELSE r1

(***************************************************************************)
(* index.ts: the socket handlers and the game loop                         *)
(***************************************************************************)
Init ==
  /\ conn = [c \in {"c1", "c2", "c3"} |-> "new"]
  /\ players = EmptyMap
  /\ playerInputs = EmptyMap
  /\ enemies = EmptyMap
  /\ buildings = EmptyMap
  /\ projectiles = EmptyMap
  /\ centralBuilding = createCentralBuilding
  /\ matchPhase = WAITING
  /\ readyPlayers = {}
  /\ lastEnemySpawn = Epoch
  /\ enemyIdCounter = 0
  /\ buildingIdCounter = 0
  /\ projectileIdCounter = 0
  /\ enemyAttackCooldowns = EmptyMap
  /\ buildingAttackCooldowns = EmptyMap
  /\ now = Epoch
  /\ lastTickTime = Epoch
  /\ lastCall = Call("constructor", "", 0, 0, "void")

\* io.on('connection'): a socket with a fresh id connects
Connection(c) ==
  /\ conn[c] = "new"
  /\ conn' = [conn EXCEPT ![c] = "open"]
  /\ lastCall' = Call("connection", c, 0, 0, "void")
  /\ UNCHANGED <<roomVars, now, lastTickTime>>

\* socket.on(PLAYER_JOIN)
PlayerJoin(c, x, y) ==
  /\ conn[c] = "open"
  /\ SetRoom(addPlayer(Room, c, x, y))
  /\ lastCall' = Call("addPlayer", c, x, y, "player")
  /\ UNCHANGED <<conn, now, lastTickTime>>

\* socket.on(PLAYER_INPUT)
PlayerInput(c, input) ==
  /\ conn[c] = "open"
  /\ SetRoom(updatePlayerInput(Room, c, input))
  /\ lastCall' = Call("updatePlayerInput", c, 0, 0, "void")
  /\ UNCHANGED <<conn, now, lastTickTime>>

\* socket.on(BUILDING_PLACE)
BuildingPlace(c, x, y, type) ==
  /\ conn[c] = "open"
  /\ LET res == placeBuilding(Room, x, y, type, c)
     IN /\ SetRoom(res.room)
        /\ lastCall' = Call("placeBuilding", c, x, y, res.ret)
  /\ UNCHANGED <<conn, now, lastTickTime>>

\* socket.on(READY_UP)
ReadyUp(c) ==
  /\ conn[c] = "open"
  /\ LET res == playerReady(Room, c, now)
     IN /\ SetRoom(res.room)
        /\ lastCall' = Call("playerReady", c, 0, 0, res.ret)
  /\ UNCHANGED <<conn, now, lastTickTime>>

\* socket.on('disconnect')
Disconnect(c) ==
  /\ conn[c] = "open"
  /\ conn' = [conn EXCEPT ![c] = "closed"]
  /\ SetRoom(removePlayer(Room, c))
  /\ lastCall' = Call("removePlayer", c, 0, 0, "void")
  /\ UNCHANGED <<now, lastTickTime>>

\* wall-clock time passes
Elapse(d) ==
  /\ now' = now + d
  /\ UNCHANGED <<conn, roomVars, lastTickTime, lastCall>>

\* the setInterval callback, Math.random() choosing SPAWN_POSITIONS[rnd]
GameLoop(rnd) ==
  /\ lastTickTime' = now
  /\ SetRoom(update(Room, now - lastTickTime, now, rnd))
  /\ lastCall' = Call("update", "", now - lastTickTime, 0, "void")
  /\ UNCHANGED <<conn, now>>

(***************************************************************************)
(* The environments the server is checked in: which sockets exist, what    *)
(* they send, what Math.random() gives and how the clock advances.         *)
(***************************************************************************)
Keys(l, r, u, d) == [left |-> l, right |-> r, up |-> u, down |-> d]

\* the lobby environment: its clock runs this many seconds, and this many
\* buildings are placed
LobbySeconds == 1
LobbyBuildings == 1

LobbyEnv ==
  [ids |-> {"c1", "c2"},
   joinAt |-> {<<margin, margin>>},
   inputs |-> {Keys(FALSE, TRUE, FALSE, TRUE)},
   placeAt |-> {<<margin, margin>>},
   types |-> {"tower"},
   steps |-> {1000},
   minLag |-> 0,
   maxLag |-> 1000,
   rnd |-> {1},
   maxBuildings |-> LobbyBuildings,
   lobbyWait |-> LobbySeconds * 1000,
   horizon |-> LobbySeconds * 1000]

\* no match has started yet
FirstLobby == matchPhase = WAITING /\ centralBuilding.hp > 0

(***************************************************************************)
(* An environment E gives: ids, the sockets; joinAt, the positions         *)
(* Math.random() gives a joining player; inputs, placeAt and types, the    *)
(* payloads of PLAYER_INPUT and BUILDING_PLACE; steps, the amounts by      *)
(* which the clock advances; minLag and maxLag, the least and the most     *)
(* time between two ticks; rnd, the spawn positions Math.random() picks;   *)
(* maxBuildings, the number of buildings ever placed; lobbyWait, the time  *)
(* by which the first match has started; horizon, the time the clock       *)
(* reaches.                                                                *)
(***************************************************************************)
Next(E) ==
  \/ \E c \in E.ids : Connection(c)
  \/ \E c \in E.ids, p \in E.joinAt : PlayerJoin(c, p[1], p[2])
  \/ \E c \in E.ids, input \in E.inputs : PlayerInput(c, input)
  \/ \E c \in E.ids, p \in E.placeAt, type \in E.types :
        /\ buildingIdCounter < E.maxBuildings
        /\ BuildingPlace(c, p[1], p[2], type)
  \/ \E c \in E.ids : ReadyUp(c)
  \/ \E c \in E.ids : Disconnect(c)
  \/ \E d \in E.steps :
        /\ now + d <= Epoch + E.horizon
        /\ now + d - lastTickTime <= E.maxLag
        /\ FirstLobby => now + d <= Epoch + E.lobbyWait
        /\ Elapse(d)
  \/ \E rnd \in E.rnd :
        /\ now - lastTickTime >= E.minLag
        /\ GameLoop(rnd)

Spec == Init /\ [][Next(LobbyEnv)]_vars

\* the match environment: one player, who readies up within the first
\* second; the clock in steps of one second with a tick after each; enemies
\* from the first spawn position; one tower beyond the central building
MatchSeconds == 26
MatchLobbySeconds == 1
MatchBuildings == 1

MatchEnv ==
  [ids |-> {"c1"},
   joinAt |-> {<<margin, margin>>},
   inputs |-> {NoKeys},
   placeAt |-> {<<448, 348>>},
   types |-> {"tower"},
   steps |-> {1000},
   minLag |-> 1000,
   maxLag |-> 1000,
   rnd |-> {1},
   maxBuildings |-> MatchBuildings,
   lobbyWait |-> MatchLobbySeconds * 1000,
   horizon |-> MatchSeconds * 1000]

SpecMatch == Init /\ [][Next(MatchEnv)]_vars

\* the movement environment: one player, joining in a corner of the spawn
\* area, steering while the clock advances by half a second or a second
MoveSeconds == 1
MoveBuildings == 1

MoveEnv ==
  [ids |-> {"c1"},
   joinAt |-> {<<margin, margin>>, <<WORLD_WIDTH - margin - 1, WORLD_HEIGHT - margin - 1>>},
   inputs |-> {Keys(TRUE, FALSE, TRUE, FALSE), Keys(FALSE, TRUE, FALSE, TRUE),
               Keys(FALSE, TRUE, FALSE, FALSE), NoInput},
   placeAt |-> {<<margin, margin>>},
   types |-> {"tower"},
   steps |-> {500, 1000},
   minLag |-> 0,
   maxLag |-> MoveSeconds * 1000,
   rnd |-> {1},
   maxBuildings |-> MoveBuildings,
   lobbyWait |-> MoveSeconds * 1000,
   horizon |-> MoveSeconds * 1000]

SpecMove == Init /\ [][Next(MoveEnv)]_vars

\* the building environment: one player, who readies up at once and places
\* buildings at the centre, around the central building's exclusion radius
\* and in a block of four adjacent cells
BuildSeconds == 1
BuildBuildings == 4

BuildEnv ==
  [ids |-> {"c1"},
   joinAt |-> {<<margin, margin>>},
   inputs |-> {NoKeys},
   placeAt |-> {<<400, 300>>, <<400, 253>>, <<400, 252>>,
                <<80, 80>>, <<112, 80>>, <<80, 112>>, <<112, 112>>},
   types |-> {"tower"},
   steps |-> {1000},
   minLag |-> 1000,
   maxLag |-> 1000,
   rnd |-> {1},
   maxBuildings |-> BuildBuildings,
   lobbyWait |-> 0,
   horizon |-> BuildSeconds * 1000]

SpecBuild == Init /\ [][Next(BuildEnv)]_vars

\* the fight environment: one player, who readies up at once and places
\* towers within an enemy's attack range of the first spawn position, so that
\* the enemies spawned there stand and attack; the clock in steps of a tenth
\* of a second with a tick after each, for this many ticks
FightTicks == 52
FightBuildings == 2
FightStep == 100

FightEnv ==
  [ids |-> {"c1"},
   joinAt |-> {<<margin, margin>>},
   inputs |-> {NoKeys},
   placeAt |-> {<<70, 70>>},
   types |-> {"tower"},
   steps |-> {FightStep},
   minLag |-> FightStep,
   maxLag |-> FightStep,
   rnd |-> {1},
   maxBuildings |-> FightBuildings,
   lobbyWait |-> 0,
   horizon |-> FightTicks * FightStep]

SpecFight == Init /\ [][Next(FightEnv)]_vars

\* the range environment: as the fight environment, with towers also at 149
\* and 151 pixels from the first spawn position, for this many ticks
RangeTicks == 24
RangeBuildings == 3

RangeEnv ==
  [ids |-> {"c1"},
   joinAt |-> {<<margin, margin>>},
   inputs |-> {NoKeys},
   placeAt |-> {<<70, 70>>, <<199, 50>>, <<201, 50>>},
   types |-> {"tower"},
   steps |-> {FightStep},
   minLag |-> FightStep,
   maxLag |-> FightStep,
   rnd |-> {1},
   maxBuildings |-> RangeBuildings,
   lobbyWait |-> 0,
   horizon |-> RangeTicks * FightStep]

SpecRange == Init /\ [][Next(RangeEnv)]_vars

\* the spawn environment: one player, who readies up within the first
\* second; the clock in steps of one second with a tick after each; enemies
\* from any of the spawn positions; a tower in attack range of the first
SpawnSeconds == 5
SpawnLobbySeconds == 1
SpawnBuildings == 1

SpawnEnv ==
  [ids |-> {"c1"},
   joinAt |-> {<<margin, margin>>},
   inputs |-> {NoKeys},
   placeAt |-> {<<70, 70>>},
   types |-> {"tower"},
   steps |-> {1000},
   minLag |-> 1000,
   maxLag |-> 1000,
   rnd |-> 1 .. Len(SPAWN_POSITIONS),
   maxBuildings |-> SpawnBuildings,
   lobbyWait |-> SpawnLobbySeconds * 1000,
   horizon |-> SpawnSeconds * 1000]

SpecSpawn == Init /\ [][Next(SpawnEnv)]_vars

\* the target environment: one player, who readies up at once; the clock in
\* steps of one second with a tick after each; enemies from the first spawn
\* position, which stop 29 pixels up and left of the centre when they walk to
\* the central building; towers at the point as far from that stop as the
\* centre, on the other side of it
TargetSeconds == 12
TargetBuildings == 2

TargetEnv ==
  [ids |-> {"c1"},
   joinAt |-> {<<margin, margin>>},
   inputs |-> {NoKeys},
   placeAt |-> {<<354, 266>>},
   types |-> {"tower"},
   steps |-> {1000},
   minLag |-> 1000,
   maxLag |-> 1000,
   rnd |-> {1},
   maxBuildings |-> TargetBuildings,
   lobbyWait |-> 0,
   horizon |-> TargetSeconds * 1000]

SpecTarget == Init /\ [][Next(TargetEnv)]_vars

\* the steering environment: one player, joining at the centre of the world
\* and sending any of the sixteen combinations of the four keys; the clock in
\* steps of one second with a tick after each; the match may start at any
\* time or not at all
SteerSeconds == 2
SteerBuildings == 1

SteerEnv ==
  [ids |-> {"c1"},
   joinAt |-> {<<WORLD_WIDTH \div 2, WORLD_HEIGHT \div 2>>},
   inputs |-> {Keys(l, r, u, d) : l \in BOOLEAN, r \in BOOLEAN,
                                  u \in BOOLEAN, d \in BOOLEAN},
   placeAt |-> {<<margin, margin>>},
   types |-> {"tower"},
   steps |-> {1000},
   minLag |-> 1000,
   maxLag |-> 1000,
   rnd |-> {1},
   maxBuildings |-> SteerBuildings,
   lobbyWait |-> SteerSeconds * 1000,
   horizon |-> SteerSeconds * 1000]

SpecSteer == Init /\ [][Next(SteerEnv)]_vars

\* the id environment: as the match environment, with two buildings to place
\* in the first match or the second, and a place next to the central building
\* where a placement is rejected
IdSeconds == 26
IdLobbySeconds == 1
IdBuildings == 2

IdEnv ==
  [ids |-> {"c1"},
   joinAt |-> {<<margin, margin>>},
   inputs |-> {NoKeys},
   placeAt |-> {<<448, 348>>, <<WORLD_WIDTH \div 2, WORLD_HEIGHT \div 2>>},
   types |-> {"tower"},
   steps |-> {1000},
   minLag |-> 1000,
   maxLag |-> 1000,
   rnd |-> {1},
   maxBuildings |-> IdBuildings,
   lobbyWait |-> IdLobbySeconds * 1000,
   horizon |-> IdSeconds * 1000]

SpecId == Init /\ [][Next(IdEnv)]_vars

\* the density environment: one player, who readies up at once and places
\* buildings on a cell away from the centre and on three of the cells that
\* touch it at a corner, none of which is adjacent to another
DenseSeconds == 1
DenseBuildings == 4

DenseEnv ==
  [ids |-> {"c1"},
   joinAt |-> {<<margin, margin>>},
   inputs |-> {NoKeys},
   placeAt |-> {<<112, 112>>, <<80, 80>>, <<144, 80>>, <<80, 144>>},
   types |-> {"tower"},
   steps |-> {1000},
   minLag |-> 1000,
   maxLag |-> 1000,
   rnd |-> {1},
   maxBuildings |-> DenseBuildings,
   lobbyWait |-> 0,
   horizon |-> DenseSeconds * 1000]

SpecDense == Init /\ [][Next(DenseEnv)]_vars

\* the siege environment: one player, who readies up at once and places a
\* tower within an enemy's attack range of the first spawn position; the clock
\* in steps of one second with a tick after each, long enough for the enemies
\* spawned there to destroy the tower
SiegeSeconds == 8
SiegeBuildings == 1

SiegeEnv ==
  [ids |-> {"c1"},
   joinAt |-> {<<margin, margin>>},
   inputs |-> {NoKeys},
   placeAt |-> {<<70, 70>>},
   types |-> {"tower"},
   steps |-> {1000},
   minLag |-> 1000,
   maxLag |-> 1000,
   rnd |-> {1},
   maxBuildings |-> SiegeBuildings,
   lobbyWait |-> 0,
   horizon |-> SiegeSeconds * 1000]

SpecSiege == Init /\ [][Next(SiegeEnv)]_vars

\* the attrition environment: as the fight environment, for as many ticks as
\* two towers need to bring an enemy's HP to 0 in the tick before the enemy's
\* attack cooldown elapses
AttritionTicks == 60
AttritionBuildings == 2

AttritionEnv ==
  [ids |-> {"c1"},
   joinAt |-> {<<margin, margin>>},
   inputs |-> {NoKeys},
   placeAt |-> {<<70, 70>>},
   types |-> {"tower"},
   steps |-> {FightStep},
   minLag |-> FightStep,
   maxLag |-> FightStep,
   rnd |-> {1},
   maxBuildings |-> AttritionBuildings,
   lobbyWait |-> 0,
   horizon |-> AttritionTicks * FightStep]

SpecAttrition == Init /\ [][Next(AttritionEnv)]_vars

\* the corner environment: one player, who readies up at once and places
\* buildings diagonally off the centre of the world, 33 and 34 pixels away on
\* both axes, and on the x axis at the exclusion radius
CornerSeconds == 1
CornerBuildings == 2

CornerEnv ==
  [ids |-> {"c1"},
   joinAt |-> {<<margin, margin>>},
   inputs |-> {NoKeys},
   placeAt |-> {<<433, 333>>, <<434, 334>>, <<448, 300>>},
   types |-> {"tower"},
   steps |-> {1000},
   minLag |-> 1000,
   maxLag |-> 1000,
   rnd |-> {1},
   maxBuildings |-> CornerBuildings,
   lobbyWait |-> 0,
   horizon |-> CornerSeconds * 1000]

SpecCorner == Init /\ [][Next(CornerEnv)]_vars

\* the palette environment: three sockets that connect, join and disconnect
\* in any order, within one step of the clock
PaletteSeconds == 1
PaletteBuildings == 1

PaletteEnv ==
  [ids |-> {"c1", "c2", "c3"},
   joinAt |-> {<<margin, margin>>},
   inputs |-> {NoKeys},
   placeAt |-> {<<margin, margin>>},
   types |-> {"tower"},
   steps |-> {1000},
   minLag |-> 1000,
   maxLag |-> 1000,
   rnd |-> {1},
   maxBuildings |-> PaletteBuildings,
   lobbyWait |-> PaletteSeconds * 1000,
   horizon |-> PaletteSeconds * 1000]

SpecPalette == Init /\ [][Next(PaletteEnv)]_vars

(***************************************************************************)
(* The claims                                                              *)
(***************************************************************************)
\* the step is a call of the handler op (the only other steps are those of
\* the clock, which leave lastCall as it is)
Called(op) == lastCall'.op = op /\ now' = now

\* C1: every player's x lies in [PLAYER_SIZE/2, WORLD_WIDTH - PLAYER_SIZE/2]
\* and y in [PLAYER_SIZE/2, WORLD_HEIGHT - PLAYER_SIZE/2], after addPlayer and
\* after every update, whatever the inputs and the tick lengths.
C1_PlayersInsideWorld ==
  \A id \in DOMAIN players :
    /\ PLAYER_SIZE \div 2 <= players[id].x
    /\ players[id].x <= WORLD_WIDTH - PLAYER_SIZE \div 2
    /\ PLAYER_SIZE \div 2 <= players[id].y
    /\ players[id].y <= WORLD_HEIGHT - PLAYER_SIZE \div 2

\* a tick has pushed a player steering right and down into the bottom right
\* corner of the world
C1_Witness ==
  /\ lastCall.op = "update"
  /\ lastCall.x > 0
  /\ \E id \in DOMAIN players :
       /\ playerInputs[id] = Keys(FALSE, TRUE, FALSE, TRUE)
       /\ players[id].x = WORLD_WIDTH - PLAYER_SIZE \div 2
       /\ players[id].y = WORLD_HEIGHT - PLAYER_SIZE \div 2

\* C2 (as claimed): the phase changes from WAITING to RUNNING only in a
\* playerReady call, and at that moment the player set is non-empty and every
\* connected player is in the ready set (the caller having just been added).
C2_StartOnlyWhenAllPlayersReady ==
  [][(matchPhase = WAITING /\ matchPhase' = RUNNING) =>
       /\ Called("playerReady")
       /\ DOMAIN players # {}
       /\ DOMAIN players \subseteq (readyPlayers \cup {lastCall'.id})]_vars

\* C3 (as claimed): in WAITING, the call of playerReady by the last unready
\* player returns true, a call that leaves some connected player unready
\* returns false, and every call in RUNNING returns false.
C3_ReadyReturnsTrueExactlyForLastPlayer ==
  [][Called("playerReady") =>
       LET caller == lastCall'.id
           ready == readyPlayers \cup {caller}
       IN /\ (matchPhase = WAITING /\ caller \in DOMAIN players
                /\ caller \notin readyPlayers
                /\ (DOMAIN players) \ {caller} \subseteq readyPlayers)
               => lastCall'.ret = "true"
          /\ (matchPhase = WAITING /\ ~(DOMAIN players \subseteq ready))
               => lastCall'.ret = "false"
          /\ matchPhase = RUNNING => lastCall'.ret = "false"]_vars

\* C4: immediately after a playerReady call that returns true, enemies,
\* buildings, projectiles and both cooldown maps are empty, the central
\* building has hp = maxHp = CENTRAL_BUILDING_HP, the ready set is empty, the
\* phase is RUNNING, the spawn timer equals the current time, and the players
\* and the stored inputs are unchanged.
C4_ReadyTrueResetsMatch ==
  [][(Called("playerReady") /\ lastCall'.ret = "true") =>
       /\ enemies' = EmptyMap
       /\ buildings' = EmptyMap
       /\ projectiles' = EmptyMap
       /\ enemyAttackCooldowns' = EmptyMap
       /\ buildingAttackCooldowns' = EmptyMap
       /\ centralBuilding'.hp = CENTRAL_BUILDING_HP
       /\ centralBuilding'.maxHp = CENTRAL_BUILDING_HP
       /\ readyPlayers' = {}
       /\ matchPhase' = RUNNING
       /\ lastEnemySpawn' = now'
       /\ players' = players
       /\ playerInputs' = playerInputs]_vars

\* playerReady has returned true for a second match: the first one had
\* spawned enemies, placed a building and fired projectiles
C4_Witness ==
  /\ lastCall.op = "playerReady"
  /\ lastCall.ret = "true"
  /\ enemyIdCounter > 0
  /\ buildingIdCounter > 0
  /\ projectileIdCounter > 0
  /\ lastEnemySpawn > Epoch + ENEMY_SPAWN_INTERVAL

\* C5: the phase changes from RUNNING to WAITING only in update, in a tick at
\* whose end the central building's HP is 0, never in a command handler, and
\* that step leaves the ready set empty.
C5_MatchEndsOnlyInUpdate ==
  [][(matchPhase = RUNNING /\ matchPhase' = WAITING) =>
       /\ Called("update")
       /\ centralBuilding'.hp = 0
       /\ readyPlayers' = {}]_vars

\* a tick has just ended the match
C5_Witness ==
  /\ matchPhase = WAITING
  /\ centralBuilding.hp = 0
  /\ lastCall.op = "update"
  /\ \E e \in DOMAIN enemyAttackCooldowns : enemyAttackCooldowns[e] = lastTickTime

\* C6: after a RUNNING to WAITING transition the enemies, buildings and
\* projectiles of that moment stay in the world and the central building
\* stays at HP 0 through every tick and command of the WAITING period; only
\* the step that starts the next match changes them.
C6_WorldKeptWhileWaiting ==
  /\ []((matchPhase = WAITING /\ enemyIdCounter > 0) => centralBuilding.hp = 0)
  /\ [][(matchPhase = WAITING /\ matchPhase' = WAITING) =>
          UNCHANGED <<enemies, buildings, projectiles, centralBuilding>>]_vars

\* in the WAITING period after a match, with enemies, a building and
\* projectiles left over, a tick has run at a time when a spawn was due
C6_Witness ==
  /\ matchPhase = WAITING
  /\ centralBuilding.hp = 0
  /\ DOMAIN enemies # {}
  /\ DOMAIN buildings # {}
  /\ DOMAIN projectiles # {}
  /\ lastCall.op = "update"
  /\ lastTickTime >= lastEnemySpawn + ENEMY_SPAWN_INTERVAL

\* C7 (as claimed): both phase transitions reset enemies, buildings,
\* projectiles and the cooldown trackers; only the WAITING to RUNNING
\* transition recreates the central building.
C7_BothTransitionsReset ==
  [][(matchPhase # matchPhase') =>
       /\ enemies' = EmptyMap
       /\ buildings' = EmptyMap
       /\ projectiles' = EmptyMap
       /\ enemyAttackCooldowns' = EmptyMap
       /\ buildingAttackCooldowns' = EmptyMap
       /\ (matchPhase' = RUNNING => centralBuilding' = createCentralBuilding)
       /\ (matchPhase' = WAITING => centralBuilding'.hp = 0)]_vars

\* C7 (amended): only the WAITING to RUNNING transition resets enemies,
\* buildings, projectiles and the cooldown trackers and recreates the central
\* building; the RUNNING to WAITING transition leaves the destroyed central
\* building, the live enemies and their cooldowns, the buildings no attack of
\* that tick could destroy, the building cooldowns and the projectiles still
\* short of their target in place.
C7_OnlyStartResets ==
  [][/\ (matchPhase = WAITING /\ matchPhase' = RUNNING) =>
          /\ enemies' = EmptyMap
          /\ buildings' = EmptyMap
          /\ projectiles' = EmptyMap
          /\ enemyAttackCooldowns' = EmptyMap
          /\ buildingAttackCooldowns' = EmptyMap
          /\ centralBuilding' = createCentralBuilding
     /\ (matchPhase = RUNNING /\ matchPhase' = WAITING) =>
          /\ centralBuilding'.hp = 0
          /\ centralBuilding'.maxHp = CENTRAL_BUILDING_HP
          /\ \A e \in DOMAIN enemies :
               enemies[e].hp > 0 =>
                 /\ e \in DOMAIN enemies'
                 /\ e \in DOMAIN enemyAttackCooldowns => e \in DOMAIN enemyAttackCooldowns'
          /\ \A b \in DOMAIN buildings :
               buildings[b].hp > ENEMY_DAMAGE * Cardinality(DOMAIN enemies')
                 => b \in DOMAIN buildings'
          /\ DOMAIN buildingAttackCooldowns \subseteq DOMAIN buildingAttackCooldowns'
          /\ \A q \in DOMAIN projectiles :
               Dist2(projectiles[q].targetX - projectiles[q].x,
                     projectiles[q].targetY - projectiles[q].y) >= PROXIMITY * PROXIMITY
                 => q \in DOMAIN projectiles']_vars

\* the tick that ended the match has left enemies, a building, projectiles
\* and both kinds of cooldown stamps behind
C7_Witness ==
  /\ matchPhase = WAITING
  /\ centralBuilding.hp = 0
  /\ lastCall.op = "update"
  /\ DOMAIN enemies # {}
  /\ DOMAIN buildings # {}
  /\ DOMAIN projectiles # {}
  /\ DOMAIN buildingAttackCooldowns # {}
  /\ \E e \in DOMAIN enemyAttackCooldowns :
       e \in DOMAIN enemies /\ enemyAttackCooldowns[e] = now

\* C8: while the phase is WAITING, placeBuilding returns null for every
\* (x, y, type, ownerId) and leaves the whole room unchanged, the building id
\* counter included.
C8_NoPlacementWhileWaiting ==
  [][(Called("placeBuilding") /\ matchPhase = WAITING) =>
       /\ lastCall'.ret = "null"
       /\ UNCHANGED roomVars]_vars

\* the distance from (x, y) to the centre of the world is below
\* CENTRAL_BUILDING_SIZE/2 + BUILDING_SIZE/2
NearCenter(x, y) ==
  4 * Dist2(x - WORLD_WIDTH \div 2, y - WORLD_HEIGHT \div 2)
    < (CENTRAL_BUILDING_SIZE + BUILDING_SIZE) * (CENTRAL_BUILDING_SIZE + BUILDING_SIZE)

\* placeBuilding has returned null in the WAITING period after a match, for a
\* position that is clear of the central building and of other buildings
C8_Witness ==
  /\ lastCall.op = "placeBuilding"
  /\ lastCall.ret = "null"
  /\ matchPhase = WAITING
  /\ centralBuilding.hp = 0
  /\ ~NearCenter(lastCall.x, lastCall.y)
  /\ DOMAIN buildings = {}

\* C9: placeBuilding is rejected (null, room unchanged) for every position
\* closer to the central building's centre than CENTRAL_BUILDING_SIZE/2 +
\* BUILDING_SIZE/2, the exact centre included, so no building in the map is
\* ever closer than that to the centre.
C9_NoBuildingNearCenter ==
  /\ [](\A b \in DOMAIN buildings : ~NearCenter(buildings[b].x, buildings[b].y))
  /\ [][(Called("placeBuilding") /\ NearCenter(lastCall'.x, lastCall'.y)) =>
          /\ lastCall'.ret = "null"
          /\ UNCHANGED roomVars]_vars

\* during a match a placement at the exact centre has been rejected, while a
\* building stands just outside the exclusion radius
C9_Witness ==
  /\ matchPhase = RUNNING
  /\ lastCall.op = "placeBuilding"
  /\ lastCall.x = WORLD_WIDTH \div 2
  /\ lastCall.y = WORLD_HEIGHT \div 2
  /\ lastCall.ret = "null"
  /\ \E b \in DOMAIN buildings :
       4 * Dist2(buildings[b].x - WORLD_WIDTH \div 2, buildings[b].y - WORLD_HEIGHT \div 2)
         = (CENTRAL_BUILDING_SIZE + BUILDING_SIZE) * (CENTRAL_BUILDING_SIZE + BUILDING_SIZE)

\* building b lies within one footprint unit of (x, y) on both axes
Near(b, x, y) ==
  /\ Abs(buildings[b].x - x) <= BUILDING_SIZE
  /\ Abs(buildings[b].y - y) <= BUILDING_SIZE

\* the buildings within one footprint unit of (x, y), not at (x, y) itself
Neighbours(x, y) ==
  {b \in DOMAIN buildings :
     Near(b, x, y) /\ ~(buildings[b].x = x /\ buildings[b].y = y)}

\* the buildings of S stand at different places, each within one footprint
\* unit of every other
MutuallyAdjacent(S) ==
  \A a, b \in S :
    a # b => /\ Near(a, buildings[b].x, buildings[b].y)
             /\ ~(buildings[a].x = buildings[b].x /\ buildings[a].y = buildings[b].y)

\* C10 (as claimed): during RUNNING, away from the centre, a placement next
\* to at most one building succeeds, and a placement within one footprint
\* unit of two mutually adjacent buildings fails.
C10_ThirdAdjacentFails ==
  [][(Called("placeBuilding") /\ matchPhase = RUNNING
        /\ ~NearCenter(lastCall'.x, lastCall'.y)) =>
       LET n == Cardinality(Neighbours(lastCall'.x, lastCall'.y))
       IN /\ n <= 1 => lastCall'.ret = "building"
          /\ (n = 2 /\ MutuallyAdjacent(Neighbours(lastCall'.x, lastCall'.y)))
               => lastCall'.ret = "null"]_vars

\* C10 (amended): during RUNNING, away from the centre, a placement succeeds
\* when at most two buildings lie within one footprint unit of it (so two
\* mutually adjacent buildings and a third one next to both are all
\* accepted), and fails when more than two do (a fourth one next to three).
C10_FourthAdjacentFails ==
  [][(Called("placeBuilding") /\ matchPhase = RUNNING
        /\ ~NearCenter(lastCall'.x, lastCall'.y)) =>
       LET n == Cardinality(Neighbours(lastCall'.x, lastCall'.y))
       IN /\ n <= 2 =>
               /\ lastCall'.ret = "building"
               /\ buildingIdCounter' = buildingIdCounter + 1
               /\ buildings' = Put(buildings, buildingIdCounter,
                                   [x |-> lastCall'.x, y |-> lastCall'.y,
                                    type |-> buildings'[buildingIdCounter].type,
                                    hp |-> BUILDING_HP, maxHp |-> BUILDING_HP,
                                    ownerId |-> lastCall'.id])
          /\ n > 2 => (lastCall'.ret = "null" /\ UNCHANGED roomVars)]_vars

\* three mutually adjacent buildings stand, and a placement next to all three
\* has been rejected
C10_Witness ==
  /\ matchPhase = RUNNING
  /\ lastCall.op = "placeBuilding"
  /\ lastCall.ret = "null"
  /\ ~NearCenter(lastCall.x, lastCall.y)
  /\ Cardinality(Neighbours(lastCall.x, lastCall.y)) = 3
  /\ MutuallyAdjacent(Neighbours(lastCall.x, lastCall.y))

\* the live buildings placed by socket id
OwnedBy(id) == {b \in DOMAIN buildings : buildings[b].ownerId = id}

\* C11 (as claimed): no player ever has more than three live buildings.
C11_AtMostThreeTowersEach ==
  \A c \in DOMAIN conn : Cardinality(OwnedBy(c)) <= 3

\* C18 (as claimed): updatePlayerInput for an id that is not a player changes
\* nothing, so the stored inputs are those of the players and of nobody else.
C18_InputOfUnknownPlayerIgnored ==
  /\ [](DOMAIN playerInputs = DOMAIN players)
  /\ [][(Called("updatePlayerInput") /\ lastCall'.id \notin DOMAIN players) =>
          UNCHANGED roomVars]_vars

\* C19 (as claimed): playerReady for an id that is not a player returns false
\* and changes nothing, so the ready set holds connected players only.
C19_ReadyOfUnknownPlayerIgnored ==
  /\ [](readyPlayers \subseteq DOMAIN players)
  /\ [][(Called("playerReady") /\ lastCall'.id \notin DOMAIN players) =>
          (lastCall'.ret = "false" /\ UNCHANGED roomVars)]_vars

\* C20 (as claimed): a building is created only for an owner that is in the
\* players map at that moment.
C20_OwnerIsPlayerAtPlacement ==
  [][(Called("placeBuilding") /\ lastCall'.ret = "building") =>
       /\ lastCall'.id \in DOMAIN players
       /\ buildings'[buildingIdCounter].ownerId \in DOMAIN players]_vars


\* C13 (as claimed): every enemy in the world has HP >= 0, and a tick removes
\* every enemy whose HP it has brought to 0 or below.
C13_NoDeadEnemyAfterTick ==
  /\ [](\A e \in DOMAIN enemies : enemies[e].hp >= 0)
  /\ [][Called("update") => \A e \in DOMAIN enemies' : enemies'[e].hp > 0]_vars


\* the step is a tick in which enemy e has dealt damage: its cooldown stamp
\* has become the time of the tick
Attacked(e) ==
  /\ e \in DOMAIN enemyAttackCooldowns'
  /\ enemyAttackCooldowns'[e] = now'
  /\ GetOr0(enemyAttackCooldowns, e) # now'

\* the central building is at least as close to enemy e as every building
CentralClosest(e) ==
  \A b \in DOMAIN buildings :
    Dist2(centralBuilding.x - enemies'[e].x, centralBuilding.y - enemies'[e].y)
      <= Dist2(buildings[b].x - enemies'[e].x, buildings[b].y - enemies'[e].y)

\* C12: the central building's HP stays within 0..maxHp; a tick in which k
\* enemies attack it takes ENEMY_DAMAGE * k from it, stopping at 0; nothing
\* else changes it but the start of a match, which restores
\* CENTRAL_BUILDING_HP.  So after k attacks in a match the HP is
\* max(0, CENTRAL_BUILDING_HP - ENEMY_DAMAGE * k), a multiple of ENEMY_DAMAGE.
C12_CentralHpCountsAttacks ==
  /\ [](/\ 0 <= centralBuilding.hp
        /\ centralBuilding.hp <= centralBuilding.maxHp
        /\ centralBuilding.maxHp = CENTRAL_BUILDING_HP
        /\ centralBuilding.hp % ENEMY_DAMAGE = 0)
  /\ [][/\ Called("update") =>
             LET k == Cardinality({e \in DOMAIN enemies' :
                                     Attacked(e) /\ CentralClosest(e)})
             IN centralBuilding'.hp = Max(0, centralBuilding.hp - ENEMY_DAMAGE * k)
        /\ ~Called("update") =>
             \/ centralBuilding'.hp = centralBuilding.hp
             \/ /\ Called("playerReady") /\ lastCall'.ret = "true"
                /\ centralBuilding'.hp = CENTRAL_BUILDING_HP]_vars

\* the attack of this tick has taken the central building's last HP, after
\* the attacks of several enemies
C12_Witness ==
  /\ lastCall.op = "update"
  /\ centralBuilding.hp = 0
  /\ centralBuilding.maxHp = CENTRAL_BUILDING_HP
  /\ Cardinality(DOMAIN enemyAttackCooldowns) >= 2
  /\ Cardinality({e \in DOMAIN enemyAttackCooldowns : enemyAttackCooldowns[e] = now}) = 1


\* the step has taken HP from the central building or from a building
DamageDealt ==
  \/ centralBuilding'.hp < centralBuilding.hp
  \/ \E b \in DOMAIN buildings :
       b \notin DOMAIN buildings' \/ buildings'[b].hp < buildings[b].hp

\* the HP the step has taken from building b
HpLost(b) ==
  IF b \in DOMAIN buildings' THEN buildings[b].hp - buildings'[b].hp ELSE ENEMY_DAMAGE

\* the enemies the step removes whose cooldown had elapsed (an enemy is
\* removed at the end of updateEnemies, after its own turn in the loop, and
\* its stamp with it)
LastAttack ==
  {e \in (DOMAIN enemies) \ (DOMAIN enemies') :
     now' - GetOr0(enemyAttackCooldowns, e) >= ENEMY_ATTACK_COOLDOWN}

\* C14: an enemy's cooldown stamp changes only in a tick in which it deals
\* damage, to the time of that tick and not sooner than ENEMY_ATTACK_COOLDOWN
\* after its previous stamp; an enemy whose cooldown has not elapsed keeps its
\* stamp, and a tick in which no enemy's cooldown has elapsed takes no HP from
\* any target; no target loses more than ENEMY_DAMAGE for each enemy whose
\* cooldown had elapsed.
C14_EnemyAttacksACooldownApart ==
  [][/\ Called("update") =>
          /\ \A e \in DOMAIN enemyAttackCooldowns' :
               \/ /\ e \in DOMAIN enemyAttackCooldowns
                  /\ enemyAttackCooldowns'[e] = enemyAttackCooldowns[e]
               \/ /\ Attacked(e)
                  /\ now' - GetOr0(enemyAttackCooldowns, e) >= ENEMY_ATTACK_COOLDOWN
                  /\ DamageDealt
          /\ LET k == Cardinality({e \in DOMAIN enemies' : Attacked(e)})
                        + Cardinality(LastAttack)
             IN /\ centralBuilding.hp - centralBuilding'.hp <= ENEMY_DAMAGE * k
                /\ \A b \in DOMAIN buildings : HpLost(b) <= ENEMY_DAMAGE * k
                /\ k = 0 => ~DamageDealt
     /\ ~Called("update") =>
          \/ enemyAttackCooldowns' = enemyAttackCooldowns
          \/ enemyAttackCooldowns' = EmptyMap /\ Called("playerReady")]_vars

\* an enemy standing in attack range of a tower has attacked it twice, and a
\* later tick, its cooldown not yet elapsed, has left the tower's HP alone
C14_Witness ==
  /\ lastCall.op = "update"
  /\ matchPhase = RUNNING
  /\ DOMAIN enemies = DOMAIN enemyAttackCooldowns
  /\ \E e \in DOMAIN enemies :
       /\ DOMAIN enemies = {e}
       /\ now - enemyAttackCooldowns[e] > 0
       /\ now - enemyAttackCooldowns[e] < ENEMY_ATTACK_COOLDOWN
       /\ \E b \in DOMAIN buildings :
            /\ buildings[b].hp = BUILDING_HP - 2 * ENEMY_DAMAGE
            /\ 4 * Dist2(buildings[b].x - enemies[e].x, buildings[b].y - enemies[e].y)
                 <= (2 * ENEMY_ATTACK_RANGE + BUILDING_SIZE) * (2 * ENEMY_ATTACK_RANGE + BUILDING_SIZE)


\* the step is a tick in which building b has fired: its cooldown stamp has
\* become the time of the tick
Fired(b) ==
  /\ b \in DOMAIN buildingAttackCooldowns'
  /\ buildingAttackCooldowns'[b] = now'
  /\ GetOr0(buildingAttackCooldowns, b) # now'

\* the squared distance between building b and enemy e after the step (the
\* building-attack pass of a tick sees the enemies where the tick leaves them)
Range2(b, e) ==
  Dist2(enemies'[e].x - buildings'[b].x, enemies'[e].y - buildings'[b].y)

\* some enemy is within BUILDING_ATTACK_RANGE of building b
InRange(b) ==
  \E e \in DOMAIN enemies' :
    Range2(b, e) <= BUILDING_ATTACK_RANGE * BUILDING_ATTACK_RANGE

\* C15: in a tick of a running match, a building fires only if some enemy is
\* within BUILDING_ATTACK_RANGE of it at the building-attack pass, and it does
\* fire if one is and its cooldown has elapsed; every new projectile comes
\* from a building that has fired; no other step creates a projectile.
C15_FiresOnlyWithinRange ==
  [][/\ (Called("update") /\ matchPhase = RUNNING) =>
          /\ \A b \in DOMAIN buildings' :
               /\ Fired(b) => InRange(b)
               /\ (InRange(b) /\ now' - GetOr0(buildingAttackCooldowns, b)
                                   >= BUILDING_ATTACK_COOLDOWN) => Fired(b)
          /\ \A q \in (DOMAIN projectiles') \ (DOMAIN projectiles) :
               /\ projectiles'[q].sourceId \in DOMAIN buildings'
               /\ Fired(projectiles'[q].sourceId)
          /\ projectileIdCounter' - projectileIdCounter
               = Cardinality({b \in DOMAIN buildings' : Fired(b)})
     /\ ~(Called("update") /\ matchPhase = RUNNING) =>
          /\ projectileIdCounter' = projectileIdCounter
          /\ DOMAIN projectiles' \subseteq DOMAIN projectiles]_vars

\* the only enemy stands 151 pixels from a tower that has never fired and 149
\* pixels from a tower placed later that has
C15_Witness ==
  /\ lastCall.op = "update"
  /\ \E e \in DOMAIN enemies, b1, b2 \in DOMAIN buildings :
       /\ DOMAIN enemies = {e}
       /\ b1 < b2
       /\ Dist2(enemies[e].x - buildings[b1].x, enemies[e].y - buildings[b1].y)
            = (BUILDING_ATTACK_RANGE + 1) * (BUILDING_ATTACK_RANGE + 1)
       /\ b1 \notin DOMAIN buildingAttackCooldowns
       /\ Dist2(enemies[e].x - buildings[b2].x, enemies[e].y - buildings[b2].y)
            = (BUILDING_ATTACK_RANGE - 1) * (BUILDING_ATTACK_RANGE - 1)
       /\ b2 \in DOMAIN buildingAttackCooldowns
       /\ \E q \in DOMAIN projectiles : projectiles[q].sourceId = b2


\* the projectiles the step has created and left in flight (a projectile
\* created within PROXIMITY of its target arrives in the tick of its creation)
NewProjectiles ==
  (projectileIdCounter .. (projectileIdCounter' - 1)) \cap DOMAIN projectiles'

\* C16: a tick creates one projectile for each building that fires in it and
\* no other, so at most one for each building; the tick in which building b
\* fires stamps b's cooldown with its time, at least BUILDING_ATTACK_COOLDOWN
\* after b's previous stamp, and b's stamp changes in no other way while b
\* stands; so two projectiles of one building are created at least
\* BUILDING_ATTACK_COOLDOWN apart.
C16_OneProjectileACooldownApart ==
  [][/\ Called("update") =>
          /\ projectileIdCounter' - projectileIdCounter
               = Cardinality({b \in DOMAIN buildings' : Fired(b)})
          /\ \A p, q \in NewProjectiles :
               projectiles'[p].sourceId = projectiles'[q].sourceId => p = q
          /\ \A q \in NewProjectiles : Fired(projectiles'[q].sourceId)
          /\ \A b \in DOMAIN buildingAttackCooldowns' :
               \/ /\ b \in DOMAIN buildingAttackCooldowns
                  /\ buildingAttackCooldowns'[b] = buildingAttackCooldowns[b]
               \/ /\ Fired(b)
                  /\ b \in DOMAIN buildings'
                  /\ now' - GetOr0(buildingAttackCooldowns, b) >= BUILDING_ATTACK_COOLDOWN
          /\ DOMAIN buildingAttackCooldowns \subseteq DOMAIN buildingAttackCooldowns'
     /\ ~Called("update") =>
          /\ projectileIdCounter' = projectileIdCounter
          /\ \/ buildingAttackCooldowns' = buildingAttackCooldowns
             \/ /\ Called("playerReady")
                /\ buildingAttackCooldowns' = EmptyMap
                /\ buildings' = EmptyMap]_vars

\* the only tower has fired more than once at an enemy in range, and a later
\* tick, its cooldown not yet elapsed, has created no projectile
C16_Witness ==
  /\ lastCall.op = "update"
  /\ buildingIdCounter = 1
  /\ projectileIdCounter >= 2
  /\ \E b \in DOMAIN buildings :
       /\ b \in DOMAIN buildingAttackCooldowns
       /\ now - buildingAttackCooldowns[b] > 0
       /\ now - buildingAttackCooldowns[b] < BUILDING_ATTACK_COOLDOWN
       /\ \E e \in DOMAIN enemies :
            Dist2(enemies[e].x - buildings[b].x, enemies[e].y - buildings[b].y)
              <= BUILDING_ATTACK_RANGE * BUILDING_ATTACK_RANGE


\* C17: a projectile in flight keeps its target point and its source through
\* every step, and a new projectile's target point is the position, at the
\* building-attack pass, of an enemy in range of its source building and as
\* close to it as any.
C17_TargetPointFixedAtFiring ==
  [][/\ \A q \in (DOMAIN projectiles) \cap (DOMAIN projectiles') :
          /\ projectiles'[q].targetX = projectiles[q].targetX
          /\ projectiles'[q].targetY = projectiles[q].targetY
          /\ projectiles'[q].sourceId = projectiles[q].sourceId
     /\ Called("update") =>
          \A q \in NewProjectiles :
            LET b == projectiles'[q].sourceId
            IN \E e \in DOMAIN enemies' :
                 /\ projectiles'[q].targetX = enemies'[e].x
                 /\ projectiles'[q].targetY = enemies'[e].y
                 /\ Range2(b, e) <= BUILDING_ATTACK_RANGE * BUILDING_ATTACK_RANGE
                 /\ \A e2 \in DOMAIN enemies' : Range2(b, e) <= Range2(b, e2)]_vars

\* a projectile is in flight to a point no enemy stands on any more, through
\* the tick in which its building has fired at a different point
C17_Witness ==
  /\ lastCall.op = "update"
  /\ \E p, q \in DOMAIN projectiles :
       /\ p < q
       /\ projectiles[p].sourceId = projectiles[q].sourceId
       /\ <<projectiles[p].targetX, projectiles[p].targetY>>
            # <<projectiles[q].targetX, projectiles[q].targetY>>
       /\ \A e \in DOMAIN enemies :
            <<enemies[e].x, enemies[e].y>>
              # <<projectiles[p].targetX, projectiles[p].targetY>>


\* C21: while the phase is RUNNING, playerReady returns false and changes
\* nothing, and the ready set is empty.
C21_NoReadyWhileRunning ==
  /\ [](matchPhase = RUNNING => readyPlayers = {})
  /\ [][(Called("playerReady") /\ matchPhase = RUNNING) =>
          (lastCall'.ret = "false" /\ UNCHANGED roomVars)]_vars

\* a player has sent READY_UP during a match
C21_Witness ==
  /\ matchPhase = RUNNING
  /\ lastCall.op = "playerReady"
  /\ lastCall.ret = "false"
  /\ lastCall.id \in DOMAIN players
  /\ readyPlayers = {}

\* C22 (as claimed): every socket that is connected has exactly one player,
\* and every socket that is not has none.
C22_OnePlayerPerConnection ==
  \A c \in DOMAIN conn : (c \in DOMAIN players) <=> (conn[c] = "open")

\* C22 (amended): only a connected socket has a player; it has none until it
\* sends PLAYER_JOIN, then one until it disconnects, a repeated PLAYER_JOIN
\* replacing the player and leaving the number of players as it is; no other
\* step adds or removes a player.
C22_OnePlayerPerJoinedConnection ==
  /\ [](\A c \in DOMAIN players : c \in DOMAIN conn /\ conn[c] = "open")
  /\ [][/\ Called("addPlayer") =>
             /\ DOMAIN players' = (DOMAIN players) \cup {lastCall'.id}
             /\ lastCall'.id \in DOMAIN players =>
                  Cardinality(DOMAIN players') = Cardinality(DOMAIN players)
        /\ Called("removePlayer") =>
             DOMAIN players' = (DOMAIN players) \ {lastCall'.id}
        /\ ~(Called("addPlayer") \/ Called("removePlayer")) =>
             DOMAIN players' = DOMAIN players]_vars

\* a socket has disconnected and has no player, and the one player left has
\* the colour of a second player although it is alone: either it joined twice
\* or the socket that left had joined before it
C22_Witness ==
  /\ lastCall.op \in {"addPlayer", "removePlayer"}
  /\ \E c \in DOMAIN conn : conn[c] = "closed" /\ c \notin DOMAIN players
  /\ \E c \in DOMAIN players : DOMAIN players = {c} /\ players[c].color = 1

\* C23 (as claimed): removePlayer(id) takes id out of the players, the stored
\* inputs and the ready set and changes nothing else, and changes nothing at
\* all when id is not a player.
C23_RemovePlayerFrame ==
  [][Called("removePlayer") =>
       /\ players' = Del(players, lastCall'.id)
       /\ playerInputs' = Del(playerInputs, lastCall'.id)
       /\ readyPlayers' = readyPlayers \ {lastCall'.id}
       /\ UNCHANGED <<enemies, buildings, projectiles, centralBuilding, matchPhase,
                      lastEnemySpawn, enemyIdCounter, buildingIdCounter,
                      projectileIdCounter, enemyAttackCooldowns,
                      buildingAttackCooldowns>>
       /\ lastCall'.id \notin DOMAIN players => UNCHANGED roomVars]_vars


\* C24: a tick in the WAITING phase changes nothing but the positions of the
\* players: enemies, buildings, projectiles, the central building, the
\* cooldown stamps, the spawn timer, the id counters, the phase, the ready set
\* and the stored inputs are as before, and so are the players' other fields.
C24_WaitingTickMovesPlayersOnly ==
  [][(Called("update") /\ matchPhase = WAITING) =>
       /\ UNCHANGED <<enemies, buildings, projectiles, centralBuilding,
                      enemyAttackCooldowns, buildingAttackCooldowns,
                      lastEnemySpawn, enemyIdCounter, buildingIdCounter,
                      projectileIdCounter, matchPhase, readyPlayers, playerInputs>>
       /\ DOMAIN players' = DOMAIN players
       /\ \A c \in DOMAIN players :
            /\ players'[c].color = players[c].color
            /\ players'[c].speed = players[c].speed]_vars

\* a tick of one second has run in the WAITING phase after a match, with
\* enemies in attack range whose cooldown has elapsed, a tower with an enemy in
\* range, projectiles in flight and a spawn due
C24_Witness ==
  /\ matchPhase = WAITING
  /\ lastCall.op = "update"
  /\ lastCall.x >= ENEMY_ATTACK_COOLDOWN
  /\ now = lastTickTime
  /\ now - lastEnemySpawn >= ENEMY_SPAWN_INTERVAL
  /\ DOMAIN projectiles # {}
  /\ \E e \in DOMAIN enemyAttackCooldowns :
       /\ e \in DOMAIN enemies
       /\ now - enemyAttackCooldowns[e] >= ENEMY_ATTACK_COOLDOWN
  /\ \E b \in DOMAIN buildings :
       /\ GetOr0(buildingAttackCooldowns, b) + BUILDING_ATTACK_COOLDOWN <= now
       /\ \E e \in DOMAIN enemies :
            Dist2(enemies[e].x - buildings[b].x, enemies[e].y - buildings[b].y)
              <= BUILDING_ATTACK_RANGE * BUILDING_ATTACK_RANGE


\* enemy e, created by this step's tick of ms milliseconds, stands on a spawn
\* position, or one move away from one if it has had a target out of reach in
\* its first turn of updateEnemies
NearSpawn(e, ms) ==
  \E i \in 1 .. Len(SPAWN_POSITIONS) :
    LET d2 == Dist2(enemies'[e].x - SPAWN_POSITIONS[i].x,
                    enemies'[e].y - SPAWN_POSITIONS[i].y)
        step == (ENEMY_SPEED * ms) \div 1000
    IN d2 = 0 \/ ((step - 1) * (step - 1) <= d2 /\ d2 <= (step + 1) * (step + 1))

\* C25: a tick creates at most one enemy, and creates one exactly when the
\* match is running and ENEMY_SPAWN_INTERVAL has passed since the spawn timer
\* was stamped; it then stamps the timer with its time; the timer is stamped
\* otherwise only by the reset that starts a match.  So enemies are created at
\* least ENEMY_SPAWN_INTERVAL apart and no sooner than that after the reset.
\* The new enemy has maxHp = ENEMY_HP, and HP = ENEMY_HP unless a projectile
\* has arrived in the same tick, and starts from a spawn position.
C25_OneEnemyPerSpawnInterval ==
  [][/\ Called("update") =>
          \/ /\ enemyIdCounter' = enemyIdCounter
             /\ lastEnemySpawn' = lastEnemySpawn
             /\ DOMAIN enemies' \subseteq DOMAIN enemies
             /\ matchPhase = RUNNING => now' - lastEnemySpawn < ENEMY_SPAWN_INTERVAL
          \/ /\ matchPhase = RUNNING
             /\ enemyIdCounter' = enemyIdCounter + 1
             /\ now' - lastEnemySpawn >= ENEMY_SPAWN_INTERVAL
             /\ lastEnemySpawn' = now'
             /\ (DOMAIN enemies') \ (DOMAIN enemies) = {enemyIdCounter}
             /\ enemies'[enemyIdCounter].maxHp = ENEMY_HP
             /\ enemies'[enemyIdCounter].speed = ENEMY_SPEED
             /\ \/ enemies'[enemyIdCounter].hp = ENEMY_HP
                \/ /\ enemies'[enemyIdCounter].hp < ENEMY_HP
                   /\ (ENEMY_HP - enemies'[enemyIdCounter].hp) % BUILDING_DAMAGE = 0
                   /\ \E q \in DOMAIN projectiles : q \notin DOMAIN projectiles'
             /\ NearSpawn(enemyIdCounter, lastCall'.x)
     /\ ~Called("update") =>
          /\ enemyIdCounter' = enemyIdCounter
          /\ \/ lastEnemySpawn' = lastEnemySpawn
             \/ /\ Called("playerReady") /\ lastCall'.ret = "true"
                /\ lastEnemySpawn' = now']_vars

\* the match started a second after the server, its third tick has created
\* the first enemy and its fifth the second, which stands on another spawn
\* position than the first started from
C25_Witness ==
  /\ lastCall.op = "update"
  /\ enemyIdCounter = 2
  /\ lastEnemySpawn = now
  /\ now = Epoch + 1000 + 2 * ENEMY_SPAWN_INTERVAL
  /\ DOMAIN enemies = {0, 1}
  /\ enemies[0].x = 50 /\ enemies[0].y = 50
  /\ enemies[1].x > WORLD_WIDTH \div 2
  /\ enemies[1].hp = ENEMY_HP


\* the squared distances from enemy e to the central building and to building b
ToCentral2(e) ==
  Dist2(centralBuilding.x - enemies[e].x, centralBuilding.y - enemies[e].y)

ToBuilding2(e, b) ==
  Dist2(buildings[b].x - enemies[e].x, buildings[b].y - enemies[e].y)

\* C26: in every state the server reaches, the target updateEnemies chooses
\* for each enemy is a nearest one among the central building, if its HP is
\* above 0, and the buildings: the central building if none is nearer than it,
\* otherwise the earliest-inserted of the nearest buildings; there is a target
\* unless the central building is down and no building stands.
C26_TargetIsNearestCentralFirst ==
  \A e \in DOMAIN enemies :
    LET target == closestTarget(Room, enemies[e])
        central == centralBuilding.hp > 0
    IN /\ target.found <=> (central \/ DOMAIN buildings # {})
       /\ target.found =>
            /\ central => target.d2 <= ToCentral2(e)
            /\ \A b \in DOMAIN buildings : target.d2 <= ToBuilding2(e, b)
            /\ target.isCentral <=>
                 (central /\ \A b \in DOMAIN buildings : ToCentral2(e) <= ToBuilding2(e, b))
            /\ target.isCentral =>
                 /\ target.d2 = ToCentral2(e)
                 /\ target.x = centralBuilding.x /\ target.y = centralBuilding.y
                 /\ target.size = centralBuilding.size
            /\ ~target.isCentral =>
                 /\ target.id \in DOMAIN buildings
                 /\ target.d2 = ToBuilding2(e, target.id)
                 /\ target.x = buildings[target.id].x
                 /\ target.y = buildings[target.id].y
                 /\ target.size = BUILDING_SIZE
                 /\ \A b \in DOMAIN buildings :
                      b < target.id => ToBuilding2(e, b) > target.d2

\* an enemy stands as far from two towers as from the central building, has
\* attacked in this tick, and the central building has lost HP while the
\* towers have not; another enemy on its way is nearer to the two towers than
\* to the central building
C26_Witness ==
  /\ lastCall.op = "update"
  /\ matchPhase = RUNNING
  /\ centralBuilding.hp < CENTRAL_BUILDING_HP
  /\ Cardinality(DOMAIN buildings) = 2
  /\ \A b \in DOMAIN buildings : buildings[b].hp = BUILDING_HP
  /\ \E e \in DOMAIN enemies :
       /\ \A b \in DOMAIN buildings : ToBuilding2(e, b) = ToCentral2(e)
       /\ e \in DOMAIN enemyAttackCooldowns
       /\ enemyAttackCooldowns[e] = now
  /\ \E e \in DOMAIN enemies :
       \A b \in DOMAIN buildings : ToBuilding2(e, b) < ToCentral2(e)


\* the raw velocity of an input on the x and on the y axis
RawX(input) == (IF input.right THEN 1 ELSE 0) - (IF input.left THEN 1 ELSE 0)
RawY(input) == (IF input.down THEN 1 ELSE 0) - (IF input.up THEN 1 ELSE 0)

\* n is the square of a length within one unit of len
SquareWithinOne(n, len) == (len - 1) * (len - 1) <= n /\ n <= (len + 1) * (len + 1)

\* player c is clear of the edges of the world after the step
OffTheEdges(c) ==
  /\ PLAYER_SIZE \div 2 < players'[c].x
  /\ players'[c].x < WORLD_WIDTH - PLAYER_SIZE \div 2
  /\ PLAYER_SIZE \div 2 < players'[c].y
  /\ players'[c].y < WORLD_HEIGHT - PLAYER_SIZE \div 2

\* C27 as claimed: the velocity applied to a player, whichever of the sixteen
\* combinations of the four keys the player holds, has length exactly 0 or
\* exactly 1.  A diagonal's components are 1 / sqrt(2), rounded to the last
\* digit kept (VelocityScale here, the last bit of a double in the code), and
\* the sum of their squares falls short of 1.
C27_ExactlyUnitVelocity ==
  \A c \in DOMAIN players \cap DOMAIN playerInputs :
    LET vx == Velocity(RawX(playerInputs[c]), RawY(playerInputs[c]))
        vy == Velocity(RawY(playerInputs[c]), RawX(playerInputs[c]))
    IN \/ vx * vx + vy * vy = 0
       \/ vx * vx + vy * vy = VelocityScale * VelocityScale

\* C27, amended: for each of the sixteen combinations of the four keys the velocity
\* updatePlayers applies has length 0 (no axis has exactly one of its two keys
\* down) or 1 (to the last digit of VelocityScale), and a tick moves a player
\* who stays clear of the edges by speed * deltaTime (to the pixel) along the
\* keys' direction, diagonally as far as along an axis, or not at all.
C27_UnitVelocity ==
  /\ [](\A l \in BOOLEAN, r \in BOOLEAN, u \in BOOLEAN, d \in BOOLEAN :
          LET vx == Velocity(RawX(Keys(l, r, u, d)), RawY(Keys(l, r, u, d)))
              vy == Velocity(RawY(Keys(l, r, u, d)), RawX(Keys(l, r, u, d)))
          IN IF l = r /\ u = d THEN vx = 0 /\ vy = 0
             ELSE SquareWithinOne(vx * vx + vy * vy, VelocityScale))
  /\ [][Called("update") =>
          \A c \in DOMAIN players :
            (c \in DOMAIN playerInputs /\ OffTheEdges(c)) =>
              LET dx == players'[c].x - players[c].x
                  dy == players'[c].y - players[c].y
                  vx == RawX(playerInputs[c])
                  vy == RawY(playerInputs[c])
                  step == (players[c].speed * lastCall'.x) \div 1000
              IN /\ vx = 0 => dx = 0
                 /\ vy = 0 => dy = 0
                 /\ vx # 0 => dx * vx > 0
                 /\ vy # 0 => dy * vy > 0
                 /\ (vx # 0 /\ vy # 0) => dx * vx = dy * vy
                 /\ (vx # 0 \/ vy # 0) => SquareWithinOne(dx * dx + dy * dy, step)]_vars

\* a tick of one second has moved a player holding left and up from the centre
\* of the world up and left by 141 pixels on each axis
C27_Witness ==
  /\ lastCall.op = "update"
  /\ lastCall.x = 1000
  /\ \E c \in DOMAIN players :
       /\ playerInputs[c] = Keys(TRUE, FALSE, TRUE, FALSE)
       /\ players[c].x = WORLD_WIDTH \div 2 - 141
       /\ players[c].y = WORLD_HEIGHT \div 2 - 141

\* the server is as its constructor left it: WAITING, the central building at
\* full HP, no enemy, building or projectile, no id given out
AsConstructed ==
  /\ matchPhase = WAITING
  /\ centralBuilding = createCentralBuilding
  /\ enemies = EmptyMap /\ buildings = EmptyMap /\ projectiles = EmptyMap
  /\ enemyIdCounter = 0 /\ buildingIdCounter = 0 /\ projectileIdCounter = 0

\* C28: the server starts in WAITING with the central building at full HP and
\* no enemy, building or projectile, and no tick and no command changes that
\* but a playerReady call that returns true.
C28_NothingBeforeFirstMatch ==
  /\ AsConstructed
  /\ [][AsConstructed =>
          \/ AsConstructed'
          \/ Called("playerReady") /\ lastCall'.ret = "true"]_vars

\* before any match, with a player in the room, a tick has run two seconds
\* after the server started, when a spawn would be due
C28_Witness ==
  /\ AsConstructed
  /\ lastCall.op = "update"
  /\ now = lastTickTime
  /\ now - lastEnemySpawn >= ENEMY_SPAWN_INTERVAL
  /\ DOMAIN players # {}


\* the ids a step adds to a map lie from the counter before the step up to,
\* not including, the counter after it
FreshIds(old, new, counter, counterAfter) ==
  /\ counter <= counterAfter
  /\ (DOMAIN new) \ (DOMAIN old) \subseteq counter .. counterAfter - 1

\* C29: every building, enemy and projectile carries an id below its counter;
\* no step lowers a counter, a match reset included; the ids a step creates
\* start at the counter, above every id given out before, so none is reused;
\* an accepted placeBuilding takes exactly the id at the counter and a
\* rejected one leaves the counter alone.
C29_IdsIncreaseNeverReused ==
  /\ [](/\ \A id \in DOMAIN buildings : id < buildingIdCounter
        /\ \A id \in DOMAIN enemies : id < enemyIdCounter
        /\ \A id \in DOMAIN projectiles : id < projectileIdCounter)
  /\ [][/\ FreshIds(buildings, buildings', buildingIdCounter, buildingIdCounter')
        /\ FreshIds(enemies, enemies', enemyIdCounter, enemyIdCounter')
        /\ FreshIds(projectiles, projectiles', projectileIdCounter,
                    projectileIdCounter')
        /\ Called("placeBuilding") =>
             IF lastCall'.ret = "null"
             THEN buildingIdCounter' = buildingIdCounter /\ buildings' = buildings
             ELSE /\ buildingIdCounter' = buildingIdCounter + 1
                  /\ DOMAIN buildings' = DOMAIN buildings \cup {buildingIdCounter}]_vars

\* in a second match, after the reset cleared building 0 and the projectiles
\* its tower fired, a placement has been rejected: the building counter is
\* still 1, and the one enemy of this match carries an id above those of the
\* first match
C29_Witness ==
  /\ matchPhase = RUNNING
  /\ lastCall.op = "placeBuilding"
  /\ lastCall.ret = "null"
  /\ buildings = EmptyMap
  /\ buildingIdCounter = 1
  /\ projectileIdCounter > 0
  /\ enemyIdCounter > 1
  /\ DOMAIN enemies = {enemyIdCounter - 1}



\* the buildings other than b within one footprint unit of b on both axes
AdjacentTo(b) ==
  {o \in DOMAIN buildings \ {b} : Near(o, buildings[b].x, buildings[b].y)}

\* C30 (as claimed): no building in the map has more than two other buildings
\* adjacent to it.  placeBuilding counts the neighbours of the new building
\* only, so a building gains a third neighbour when one is placed next to it
\* and to at most one of its neighbours.
C30_AtMostTwoAdjacent ==
  \A b \in DOMAIN buildings : Cardinality(AdjacentTo(b)) <= 2


\* the projectiles in flight before the step that start their update within
\* the proximity threshold of their target point (no pass before
\* updateProjectiles touches a projectile in flight)
Resolving ==
  {p \in DOMAIN projectiles :
     Dist2(projectiles[p].targetX - projectiles[p].x,
           projectiles[p].targetY - projectiles[p].y) < PROXIMITY * PROXIMITY}

\* the buildings whose projectile of this step has resolved its impact in the
\* step itself, at the building's position where it was created
ResolvingAtSource ==
  {b \in DOMAIN buildings' :
     Fired(b) /\ \A q \in NewProjectiles : projectiles'[q].sourceId # b}

\* the number of impacts of the step that enemy e is within ENEMY_SIZE of
\* (the projectile pass sees the enemies where the tick leaves them)
Impacts(e) ==
  Cardinality({p \in Resolving :
                 Dist2(enemies'[e].x - projectiles[p].x,
                       enemies'[e].y - projectiles[p].y) < ENEMY_SIZE * ENEMY_SIZE})
  + Cardinality({b \in ResolvingAtSource :
                   Dist2(enemies'[e].x - buildings'[b].x,
                         enemies'[e].y - buildings'[b].y) < ENEMY_SIZE * ENEMY_SIZE})

\* C31: in a tick of a running match every projectile that starts its update
\* within the proximity threshold of its target point is removed in that
\* tick, every other projectile stays in flight, and every enemy the tick
\* leaves in the world has lost exactly BUILDING_DAMAGE for each resolving
\* projectile it stands within ENEMY_SIZE of, and nothing otherwise.
C31_ImpactDamagesEnemiesInRadius ==
  [][(Called("update") /\ matchPhase = RUNNING) =>
       /\ \A p \in DOMAIN projectiles : p \in DOMAIN projectiles' <=> p \notin Resolving
       /\ \A e \in DOMAIN enemies' :
            enemies'[e].hp
              = (IF e \in DOMAIN enemies THEN enemies[e].hp ELSE ENEMY_HP)
                - BUILDING_DAMAGE * Impacts(e)]_vars


\* after a tick of a running match exactly one projectile has resolved its
\* impact so far: one enemy has lost BUILDING_DAMAGE once, and another enemy,
\* standing ENEMY_SIZE or more away from it, has its full HP
C31_Witness ==
  /\ lastCall.op = "update"
  /\ matchPhase = RUNNING
  /\ projectileIdCounter - Cardinality(DOMAIN projectiles) = 1
  /\ \E e1, e2 \in DOMAIN enemies :
       /\ enemies[e1].hp = ENEMY_HP - BUILDING_DAMAGE
       /\ enemies[e2].hp = ENEMY_HP
       /\ Dist2(enemies[e1].x - enemies[e2].x, enemies[e1].y - enemies[e2].y)
            >= ENEMY_SIZE * ENEMY_SIZE


\* C32: whenever the phase is RUNNING the central building's HP is strictly
\* positive, after every tick and every command; the tick that brings the HP
\* from above 0 to 0 or below is the tick that leaves the phase WAITING.
C32_RunningImpliesCentralAlive ==
  /\ [](matchPhase = RUNNING => centralBuilding.hp > 0)
  /\ [][(centralBuilding.hp > 0 /\ centralBuilding'.hp <= 0) =>
          /\ Called("update")
          /\ matchPhase = RUNNING
          /\ matchPhase' = WAITING]_vars

\* the tick in which the enemies' attacks have taken the last HP of the
\* central building has just run, and the phase is WAITING
C32_Witness ==
  /\ lastCall.op = "update"
  /\ now = lastTickTime
  /\ centralBuilding.hp = 0
  /\ matchPhase = WAITING
  /\ \E e \in DOMAIN enemyAttackCooldowns : enemyAttackCooldowns[e] = now


\* C33: every building in the map has 0 < hp <= maxHp, after every tick and
\* every command; a building that a tick removes has not fired in that tick
\* (its cooldown stamp is as before and no projectile in flight was created
\* by it), and the tick creates exactly one projectile for each standing
\* building that fires.
C33_BuildingsAliveAndDestroyedDoNotFire ==
  /\ [](\A b \in DOMAIN buildings :
          0 < buildings[b].hp /\ buildings[b].hp <= buildings[b].maxHp)
  /\ [][Called("update") =>
          /\ \A b \in (DOMAIN buildings) \ (DOMAIN buildings') :
               /\ GetOr0(buildingAttackCooldowns', b) = GetOr0(buildingAttackCooldowns, b)
               /\ \A q \in NewProjectiles : projectiles'[q].sourceId # b
          /\ projectileIdCounter' - projectileIdCounter
               = Cardinality({b \in DOMAIN buildings' : Fired(b)})]_vars

\* the match is running and the only tower, which fired in the tick before,
\* has been destroyed by the enemies in the tick that has just run: it left
\* its stamp of the tick before behind, and no projectile was created
C33_Witness ==
  /\ lastCall.op = "update"
  /\ now = lastTickTime
  /\ matchPhase = RUNNING
  /\ buildingIdCounter = 1
  /\ buildings = EmptyMap
  /\ 0 \in DOMAIN buildingAttackCooldowns
  /\ buildingAttackCooldowns[0] = now - lastCall.x
  /\ \E e \in DOMAIN enemyAttackCooldowns : enemyAttackCooldowns[e] = now


\* the enemies that have dealt damage in the step and are still in the world
\* after it: their HP was above 0 when they acted
LiveAttackers == {e \in DOMAIN enemies' : Attacked(e)}

\* C34 (as claimed): an enemy whose HP is 0 or below is not in the world
\* after a tick, and a tick takes from the central building and from each
\* building no more than ENEMY_DAMAGE for each enemy with HP above 0 that has
\* attacked in it: an enemy at HP 0 or below deals no damage.
C34_DeadEnemyNeverActs ==
  [][Called("update") =>
       /\ \A e \in DOMAIN enemies : enemies[e].hp <= 0 => e \notin DOMAIN enemies'
       /\ centralBuilding.hp - centralBuilding'.hp
            <= ENEMY_DAMAGE * Cardinality(LiveAttackers)
       /\ \A b \in DOMAIN buildings :
            HpLost(b) <= ENEMY_DAMAGE * Cardinality(LiveAttackers)]_vars


\* C35 (as claimed): in WAITING, a playerReady call of a player, every other
\* player being in the ready set already, starts the match, whatever ready,
\* input or placement commands other connection ids have sent.
C35_LastReadyStartsMatch ==
  [][(/\ Called("playerReady")
      /\ matchPhase = WAITING
      /\ lastCall'.id \in DOMAIN players
      /\ (DOMAIN players) \ {lastCall'.id} \subseteq readyPlayers) =>
       /\ lastCall'.ret = "true"
       /\ matchPhase' = RUNNING]_vars

OverlapsCentral(b) ==
  /\ 2 * Abs(buildings[b].x - centralBuilding.x) < CENTRAL_BUILDING_SIZE + BUILDING_SIZE
  /\ 2 * Abs(buildings[b].y - centralBuilding.y) < CENTRAL_BUILDING_SIZE + BUILDING_SIZE

\* C37 (as claimed): no building in the map overlaps the central building.
\* placeBuilding compares the straight-line distance of the centres with the
\* sum of the half sizes, which a building placed diagonally off the centre
\* passes while the squares still intersect at their corners.
C37_NoBuildingOverlapsCentral ==
  \A b \in DOMAIN buildings : ~OverlapsCentral(b)


ToTarget2(projectile) ==
  Dist2(projectile.targetX - projectile.x, projectile.targetY - projectile.y)

=============================================================================
